---- MODULE Spec2Model ----
(***************************************************************************)
(* A state-machine model of the GQE compression engine:                    *)
(*   - BekensteinArena and EntropyFreeScope (include/gqe/bekenstein_arena) *)
(*   - GrainAwareChunker                    (include/gqe/chunker.hpp)      *)
(*   - CircularRAC                          (include/gqe/circular_rac.hpp) *)
(*   - GQECompressor::compress              (include/gqe/compressor.hpp)   *)
(*   - the mixer, chunker, arena, coder and compress of                    *)
(*                                          Examples/gqe_kernel.hpp        *)
(*   - SimpleRangeCoder           (Examples/intro/gqe_kernel_minimal.hpp)  *)
(* Each component has its own specification (SpecArena, SpecChunker,       *)
(* SpecBoundary, SpecCoder, SpecCdf, SpecRenorm and SpecRenormFair,        *)
(* SpecStream, SpecCompress, SpecCallback, SpecTrain, SpecEx, SpecSlice,   *)
(* SpecFrameArena); the variables of the other components are parked at   *)
(* a fixed value and left unchanged.                                       *)
(***************************************************************************)
EXTENDS Integers, Sequences, FiniteSets, TLC

VARIABLES
    \* ---- BekensteinArena -------------------------------------------------
    blocks_,                \* std::vector<MemoryBlock>: sequence of [size, used]
    current_block_index_,   \* 0-based index into blocks_
    entropy_free_mode_,     \* bool
    total_allocated,        \* stats_.total_allocated
    coherence_factor,       \* stats_.coherence_factor, in thousandths
    guards,                 \* stack of live EntropyFreeScope objects
    regions,                \* regions handed out since the last reset()
    arena_last,             \* what the last arena operation was and did
    cycle,                  \* bookkeeping of the reset(); allocate... cycles
    \* ---- GrainAwareChunker / GQECompressor::compress ---------------------
    chunk_size_,            \* GrainAwareChunker::chunk_size_
    overlap_step_,          \* GrainAwareChunker::overlap_step_
    data,                   \* the span passed to chunk_data / compress
    start,                  \* chunk_data's local start
    frame_index,            \* chunk_data's local frame_index
    frames,                 \* the frames handed to the callback, in order
    ck_pc,                  \* where the chunk_data / compress call stands
    coded,                  \* the symbols compress gave to rac_.encode, in order
    decoded,                \* the buffer decompress rebuilds
    \* ---- CircularRAC -----------------------------------------------------
    low_, high_,            \* uint64_t, as six 11-bit limbs, least significant first
    underflow_count_,       \* uint32_t
    output_,                \* std::vector<uint8_t>
    current_byte_,          \* uint8_t
    bit_count_,             \* int
    rac_calls,              \* encode / get_output calls since reset()
    rac_last,               \* what the last coder call was given and did
    \* ---- Examples: one ContextTable entry under GeometricParallelMixer::train
    tr_observed,            \* the bytes train counted for this entry, in order
    tr_entry,               \* the Entry: [valid, probabilities]
    \* ---- Examples/gqe_kernel.hpp: GQECompressor::compress ----------------
    ex_chunk_size,          \* GrainAwareChunker::chunk_size_
    ex_data,                \* the span passed to compress
    ex_start,               \* chunk_data's local start
    ex_frames,              \* the frames handed to the callback, in order
    ex_tables,              \* tables_: the valid entries, keyed by <<ctx, hash>>
    ex_preds,               \* mixed_probs of every position predicted, in order
    ex_ranks,               \* the ranks given to rac_.encode, in order
    ex_pc,                  \* where the compress call stands
    \* ---- GQECompressor: mixer_ and the compress calls --------------------
    mx_counts,              \* raw observation count per symbol
    mx_probs,               \* quantized probability per symbol
    mx_touched,             \* touched since the last refresh
    cm_calls,               \* compress calls made on this compressor
    cm_first,               \* what the first compress call returned
    \* ---- GrainAwareChunker::find_boundary called on its own --------------
    fb_mem,                 \* the bytes in memory from data.data() on
    fb_size,                \* data.size()
    fb_target,              \* target_end
    fb_result,              \* the offset returned
    fb_reads,               \* the indices i of every data[i] the call read
    fb_pc,                  \* where the call stands
    \* ---- GQECompressor::compress: the callback run on one frame ----------
    cb_n,                   \* chunk.size()
    cb_i,                   \* the loop variable i
    cb_pc,                  \* the statement the callback is at
    cb_log,                 \* the calls made on mixer_ and rac_, in order
    \* ---- CircularRAC::encode: the arguments it computes for encode_range -
    cdf_actual,             \* actual
    cdf_distribution,       \* distribution[0..255], each a uint32_t in limbs
    cdf_args,               \* [low_cdf, high_cdf, total_sum] as computed
    cdf_pc,                 \* where the call stands
    \* ---- CircularRAC::encode_range, one loop iteration at a time ---------
    rn_low, rn_high,        \* low_ and high_
    rn_pc,                  \* "idle" between calls, "loop" at the top of for (;;)
    rn_calls,               \* encode_range calls since construction
    rn_last,                \* <<low_count, high_count, total_sum>> of the last call
    rn_iter,                \* iterations of the loop that ended in the shifts, this call
    \* ---- CircularRAC: two symbol sequences coded from reset() ------------
    st_distribution,        \* the distribution passed to every encode call
    st_first, st_second,    \* the two symbol sequences
    st_out,                 \* <<get_output() of the first, of the second>>
    st_pc,                  \* "drawn" before the two runs, "coded" after
    \* ---- Examples: CircularRAC (64 bits) and SimpleRangeCoder (32 bits) --
    xr_low, xr_high,        \* CircularRAC: uint64_t, six limbs
    xr_out,                 \* CircularRAC::output_ (one element per bit)
    sr_low, sr_high,        \* SimpleRangeCoder: uint32_t, three limbs
    sr_out,                 \* SimpleRangeCoder::output_ (one element per bit)
    xc_calls,               \* encode calls made on the two coders
    xc_last,                \* what the last encode call was given and did
    \* ---- Examples: arena_ under GQECompressor::compress's callback -------
    fa_len,                 \* chunk.size() of the frame being processed
    fa_offset,              \* BekensteinArena::offset_
    fa_k,                   \* the loop variable i of vectorized_hash's allocation loop
    fa_frames,              \* frames processed by this compress call
    fa_pc                   \* the statement the callback is at

arenaVars == <<blocks_, current_block_index_, entropy_free_mode_, total_allocated,
               coherence_factor, guards, regions, arena_last, cycle>>

chunkVars == <<chunk_size_, overlap_step_, data, start, frame_index, frames,
               ck_pc, coded, decoded>>

coderVars == <<low_, high_, underflow_count_, output_, current_byte_, bit_count_,
               rac_calls, rac_last>>

trainVars == <<tr_observed, tr_entry>>

exVars == <<ex_chunk_size, ex_data, ex_start, ex_frames, ex_tables, ex_preds,
            ex_ranks, ex_pc>>

mixerVars == <<mx_counts, mx_probs, mx_touched, cm_calls, cm_first>>

boundaryVars == <<fb_mem, fb_size, fb_target, fb_result, fb_reads, fb_pc>>

callbackVars == <<cb_n, cb_i, cb_pc, cb_log>>

cdfVars == <<cdf_actual, cdf_distribution, cdf_args, cdf_pc>>

renormVars == <<rn_low, rn_high, rn_pc, rn_calls, rn_last, rn_iter>>

streamVars == <<st_distribution, st_first, st_second, st_out, st_pc>>

sliceVars == <<xr_low, xr_high, xr_out, sr_low, sr_high, sr_out, xc_calls, xc_last>>

frameArenaVars == <<fa_len, fa_offset, fa_k, fa_frames, fa_pc>>

vars == <<arenaVars, chunkVars, coderVars, trainVars, exVars, mixerVars,
          boundaryVars, callbackVars,
          cdfVars,
          renormVars,
          streamVars,
          sliceVars,
          frameArenaVars>>

\* What an action of one component leaves alone.
notArena == <<chunkVars, coderVars, trainVars, exVars, mixerVars, boundaryVars,
        callbackVars,
        cdfVars,
        renormVars,
        streamVars,
        sliceVars,
        frameArenaVars>>
notChunker == <<arenaVars, coderVars, trainVars, exVars, mixerVars, boundaryVars,
        callbackVars,
        cdfVars,
        renormVars,
        streamVars,
        sliceVars,
        frameArenaVars>>
notCoder == <<arenaVars, chunkVars, trainVars, exVars, mixerVars, boundaryVars,
        callbackVars,
        cdfVars,
        renormVars,
        streamVars,
        sliceVars,
        frameArenaVars>>
notTrain == <<arenaVars, chunkVars, coderVars, exVars, mixerVars, boundaryVars,
        callbackVars,
        cdfVars,
        renormVars,
        streamVars,
        sliceVars,
        frameArenaVars>>
notEx == <<arenaVars, chunkVars, coderVars, trainVars, mixerVars, boundaryVars,
        callbackVars,
        cdfVars,
        renormVars,
        streamVars,
        sliceVars,
        frameArenaVars>>
notCompress == <<arenaVars, trainVars, exVars, boundaryVars,
        callbackVars,
        cdfVars,
        renormVars,
        streamVars,
        sliceVars,
        frameArenaVars>>
notCallback == <<arenaVars, chunkVars, coderVars, trainVars, exVars, mixerVars,
                 boundaryVars,
        cdfVars,
        renormVars,
        streamVars,
        sliceVars,
        frameArenaVars>>
notBoundary == <<arenaVars, chunkVars, coderVars, trainVars, exVars, mixerVars,
        callbackVars,
        cdfVars,
        renormVars,
        streamVars,
        sliceVars,
        frameArenaVars>>
notCdf == <<arenaVars, chunkVars, coderVars, trainVars, exVars, mixerVars, boundaryVars, callbackVars,
        renormVars,
        streamVars,
        sliceVars,
        frameArenaVars>>
notRenorm == <<arenaVars, chunkVars, coderVars, trainVars, exVars, mixerVars, boundaryVars, callbackVars, cdfVars,
        streamVars,
        sliceVars,
        frameArenaVars>>
notStream == <<arenaVars, chunkVars, coderVars, trainVars, exVars, mixerVars, boundaryVars, callbackVars, cdfVars, renormVars,
        sliceVars,
        frameArenaVars>>
notSlice == <<arenaVars, chunkVars, coderVars, trainVars, exVars, mixerVars, boundaryVars, callbackVars, cdfVars, renormVars, streamVars,
        frameArenaVars>>
notFrameArena == <<arenaVars, chunkVars, coderVars, trainVars, exVars, mixerVars, boundaryVars, callbackVars, cdfVars, renormVars, streamVars, sliceVars>>

\* ======================================================================
\*  BekensteinArena                       include/gqe/bekenstein_arena.hpp
\* ======================================================================

CACHE_LINE_SIZE == 64
DEFAULT_BLOCK_SIZE == 5702887
BLOCK_SIZE_FIB_13 == 233

\* Bounds of the arena model.
MaxAllocs == 2      \* allocate calls served between two reset() calls
MaxBlocks == 3      \* blocks the model lets the arena grow to
MaxGuards == 2      \* nesting depth of EntropyFreeScope guards
MaxResets == 2      \* reset() calls in one run

\* count * sizeof(T) of the allocate calls the model issues.
AllocSizes == {100, 3000000}

\* The initial_block_size values the arena is constructed with.
InitialBlockSizes == {DEFAULT_BLOCK_SIZE, BLOCK_SIZE_FIB_13}

Max(a, b) == IF a >= b THEN a ELSE b
Min(a, b) == IF a <= b THEN a ELSE b

\* (size + CACHE_LINE_SIZE - 1) & ~(CACHE_LINE_SIZE - 1)
align_to_cache_line(size) ==
    ((size + CACHE_LINE_SIZE - 1) \div CACHE_LINE_SIZE) * CACHE_LINE_SIZE

\* MemoryBlock(block_size): size = block_size, used = 0.
MemoryBlock(block_size) == [size |-> block_size, used |-> 0]

\* update_holographic_bounds: entropy_density = F * volume^(2/3) with
\* F = 1/(8*pi*G) ~ 5.96e8 and coherence_factor = 1/(1 + entropy_density).
\* For volume = 0 that is exactly 1.0; for every volume >= 1 the density is
\* >= 5.96e8 and the factor is below 2e-9.  In thousandths, rounded down:
CoherenceOf(volume) == IF volume = 0 THEN 1000 ELSE 0

\* The threshold 0.9 of EntropyFreeScope's heuristic, in thousandths.
CoherenceThreshold == 900

\* The mutated space check: the current block is always taken to have room.
NeedsNewBlockNoCheck(blocks, idx, aligned_bytes) == FALSE

\* allocate's space check (0-based idx):
\*   current_block_index_ >= blocks_.size() || used + aligned_bytes > size
NeedsNewBlock(blocks, idx, aligned_bytes) ==
    \/ idx >= Len(blocks)
    \/ blocks[idx + 1].used + aligned_bytes > blocks[idx + 1].size

ArenaIdle == [op |-> "none", result |-> "none", tampered |-> FALSE,
              flag_before |-> FALSE]

CycleInit == [resets |-> 0, prev |-> <<>>, prev_blocks |-> 0, prev_valid |-> FALSE]

\* The aligned sizes served since the last reset(), in call order.
ServedSizes == [i \in 1..Len(regions) |-> regions[i].size]

\* BekensteinArena(initial_block_size): add_block(initial_block_size).
ArenaInit ==
    /\ \E s \in InitialBlockSizes : blocks_ = <<MemoryBlock(s)>>
    /\ current_block_index_ = 0
    /\ entropy_free_mode_ = FALSE
    /\ total_allocated = 0
    /\ coherence_factor = 1000
    /\ guards = <<>>
    /\ regions = <<>>
    /\ arena_last = ArenaIdle
    /\ cycle = CycleInit

\* enter_compression_mode() or exit_compression_mode() was called directly
\* since the outermost live guard was constructed.
Tampered == arena_last.tampered /\ guards # <<>>

\* allocate<T>(count) while entropy_free_mode_ is set: throws, nothing changes.
AllocateThrows(bytes_needed) ==
    /\ entropy_free_mode_
    /\ arena_last' = [op |-> "allocate", result |-> "throw",
                      tampered |-> Tampered,
                      flag_before |-> FALSE]
    /\ UNCHANGED <<blocks_, current_block_index_, entropy_free_mode_,
                   total_allocated, coherence_factor, guards, regions, cycle>>
    /\ UNCHANGED notArena

\* allocate<T>(count) with bytes_needed = count * sizeof(T), mode not set.
AllocateServes(bytes_needed) ==
    /\ ~entropy_free_mode_
    /\ Len(regions) < MaxAllocs
    /\ LET aligned_bytes == align_to_cache_line(bytes_needed)
           grow == NeedsNewBlock(blocks_, current_block_index_, aligned_bytes)
           new_block_size == Max(aligned_bytes * 2, DEFAULT_BLOCK_SIZE)
           \* add_block: emplace_back, current_block_index_ = size() - 1
           blocks1 == IF grow THEN Append(blocks_, MemoryBlock(new_block_size))
                              ELSE blocks_
           idx1 == IF grow THEN Len(blocks1) - 1 ELSE current_block_index_
           ptr == blocks1[idx1 + 1].used
       IN  /\ grow => Len(blocks_) < MaxBlocks
           /\ blocks_' = [blocks1 EXCEPT ![idx1 + 1].used = @ + aligned_bytes]
           /\ current_block_index_' = idx1
           /\ total_allocated' = total_allocated + aligned_bytes
           /\ coherence_factor' = CoherenceOf(total_allocated + aligned_bytes)
           /\ regions' = Append(regions, [block |-> idx1, offset |-> ptr,
                                          size |-> aligned_bytes])
    /\ arena_last' = [op |-> "allocate", result |-> "ok",
                      tampered |-> Tampered,
                      flag_before |-> FALSE]
    /\ UNCHANGED <<entropy_free_mode_, guards, cycle>>
    /\ UNCHANGED notArena

\* reset(): every block's used = 0, current_block_index_ = 0,
\* total_allocated = 0.  refresh_holographic_state only decays
\* entropy_density; coherence_factor keeps its value.
ArenaReset ==
    /\ cycle.resets < MaxResets
    /\ blocks_' = [i \in 1..Len(blocks_) |-> [blocks_[i] EXCEPT !.used = 0]]
    /\ current_block_index_' = 0
    /\ total_allocated' = 0
    /\ regions' = <<>>
    /\ cycle' = [resets |-> cycle.resets + 1, prev |-> ServedSizes,
                 prev_blocks |-> Len(blocks_), prev_valid |-> cycle.resets >= 1]
    /\ arena_last' = [op |-> "reset", result |-> "ok", tampered |-> Tampered, flag_before |-> FALSE]
    /\ UNCHANGED <<entropy_free_mode_, coherence_factor, guards>>
    /\ UNCHANGED notArena

\* enter_compression_mode(), called directly.
EnterCompressionMode ==
    /\ entropy_free_mode_' = TRUE
    /\ arena_last' = [op |-> "enter", result |-> "ok", tampered |-> guards # <<>>,
                      flag_before |-> FALSE]
    /\ UNCHANGED <<blocks_, current_block_index_, total_allocated,
                   coherence_factor, guards, regions, cycle>>
    /\ UNCHANGED notArena

\* exit_compression_mode(), called directly.
ExitCompressionMode ==
    /\ entropy_free_mode_' = FALSE
    /\ arena_last' = [op |-> "exit", result |-> "ok", tampered |-> guards # <<>>, flag_before |-> FALSE]
    /\ UNCHANGED <<blocks_, current_block_index_, total_allocated,
                   coherence_factor, guards, regions, cycle>>
    /\ UNCHANGED notArena

\* EntropyFreeScope(arena): was_in_compression_mode_ = coherence_factor < 0.9;
\* enter_compression_mode() unless was_in_compression_mode_.
GuardCtor ==
    /\ Len(guards) < MaxGuards
    /\ LET was == coherence_factor < CoherenceThreshold
       IN  /\ guards' = Append(guards, [was_in_compression_mode_ |-> was,
                                        flag_before |-> entropy_free_mode_])
           /\ entropy_free_mode_' = IF was THEN entropy_free_mode_ ELSE TRUE
    /\ arena_last' = [op |-> "guard_ctor", result |-> "ok", tampered |-> Tampered, flag_before |-> FALSE]
    /\ UNCHANGED <<blocks_, current_block_index_, total_allocated,
                   coherence_factor, regions, cycle>>
    /\ UNCHANGED notArena

\* ~EntropyFreeScope(): exit_compression_mode() unless was_in_compression_mode_.
\* Scoped objects are destroyed innermost first.
GuardDtor ==
    /\ guards # <<>>
    /\ LET g == guards[Len(guards)]
       IN  /\ entropy_free_mode_' =
                 IF g.was_in_compression_mode_ THEN entropy_free_mode_ ELSE FALSE
           /\ arena_last' = [op |-> "guard_dtor", result |-> "ok",
                             tampered |-> Tampered,
                             flag_before |-> g.flag_before]
    /\ guards' = SubSeq(guards, 1, Len(guards) - 1)
    /\ UNCHANGED <<blocks_, current_block_index_, total_allocated,
                   coherence_factor, regions, cycle>>
    /\ UNCHANGED notArena

NextArena ==
    \/ \E b \in AllocSizes : AllocateThrows(b)
    \/ \E b \in AllocSizes : AllocateServes(b)
    \/ ArenaReset
    \/ EnterCompressionMode
    \/ ExitCompressionMode
    \/ GuardCtor
    \/ GuardDtor

\* ======================================================================
\*  GrainAwareChunker                               include/gqe/chunker.hpp
\* ======================================================================

\* Bounds of the chunker model.
MaxLen == 5         \* data.size() is at most this
MaxChunk == 3       \* chunk_size and overlap_step are at most this

\* The byte values the model's inputs are made of: ' ', 'a', 'b'.
DataBytes == {32, 97, 98}

\* ' ', '\n', '\r', '\t', '.', ',', ';', ':', '!', '?', '-', '_'
boundaries_ == {32, 10, 13, 9, 46, 44, 59, 58, 33, 63, 45, 95}

\* The width of find_boundary's forward and backward search windows.
SearchWindow == 4096

\* The values GOLDEN_OVERLAP_STEP may have: its definition is not part of the
\* sources at hand, so every value from 1 up is allowed for.
GoldenSteps == 1..(MaxChunk + 1)

is_boundary(byte) == byte \in boundaries_

SetMin(S) == CHOOSE x \in S : \A y \in S : x <= y
SetMax(S) == CHOOSE x \in S : \A y \in S : x >= y

\* All sequences over S of length 0..n.
SeqsUpTo(S, n) == UNION {[1..k -> S] : k \in 0..n}

\* find_boundary on a span of total_size bytes whose bytes, and whatever lies
\* behind them in memory, are mem; offsets 0-based as in the source (mem[i + 1]
\* is data[i]). Each loop returns at its first hit: the forward loop at the
\* smallest index of its range, the backward loop at the largest.
ForwardHits(mem, total_size, target_end) ==
    LET forward_limit == Min(target_end + SearchWindow, total_size)
    IN  {i \in target_end..(forward_limit - 1) : is_boundary(mem[i + 1])}

BackwardHits(mem, target_end) ==
    LET backward_limit == IF target_end > SearchWindow
                          THEN target_end - SearchWindow ELSE 0
    IN  {i \in backward_limit..(target_end - 1) : is_boundary(mem[i + 1])}

\* The same loops with the forward window one byte wider.
find_boundary_in_wide(mem, total_size, target_end) ==
    LET forward_limit == Min(target_end + SearchWindow + 1, total_size)
        forward == {i \in target_end..(forward_limit - 1) : is_boundary(mem[i + 1])}
        backward == BackwardHits(mem, target_end)
    IN  IF forward # {} THEN SetMin(forward) + 1
        ELSE IF backward # {} THEN SetMax(backward) + 1
        ELSE target_end

find_boundary_in(mem, total_size, target_end) ==
    LET forward == ForwardHits(mem, total_size, target_end)
        backward == BackwardHits(mem, target_end)
    IN  IF forward # {} THEN SetMin(forward) + 1
        ELSE IF backward # {} THEN SetMax(backward) + 1
        ELSE target_end

\* find_boundary(data, target_end) with target_end <= data.size(), as in every
\* call chunk_data makes: no byte behind the span is looked at.
find_boundary(d, target_end) == find_boundary_in(d, Len(d), target_end)

\* The indices i of the data[i] find_boundary evaluates, in both loops.
BoundaryReads(mem, total_size, target_end) ==
    LET forward_limit == Min(target_end + SearchWindow, total_size)
        forward == ForwardHits(mem, total_size, target_end)
        backward_limit == IF target_end > SearchWindow
                          THEN target_end - SearchWindow ELSE 0
        backward == BackwardHits(mem, target_end)
    IN  IF forward # {} THEN target_end..SetMin(forward)
        ELSE (target_end..(forward_limit - 1)) \cup
             (IF backward # {} THEN SetMax(backward)..(target_end - 1)
              ELSE backward_limit..(target_end - 1))

\* The end chunk_data computes for the frame starting at st.
FrameEnd(d, st, chunk_size) ==
    LET target_end == st + chunk_size
    IN  IF target_end >= Len(d) THEN Len(d) ELSE find_boundary(d, target_end)

\* GrainAwareChunker(chunk_size, overlap_step): the overlap_step_ it stores.
OverlapStepOf(chunk_size, overlap_step, golden) ==
    IF overlap_step = 0 THEN Min(chunk_size, golden) ELSE overlap_step

ChunkerParked ==
    /\ chunk_size_ = 1 /\ overlap_step_ = 1 /\ data = <<>> /\ start = 0
    /\ frame_index = 0 /\ frames = <<>> /\ ck_pc = "parked"
    /\ coded = <<>> /\ decoded = <<>>

\* A chunker constructed with any chunk_size and overlap_step; no call yet.
ChunkerInit ==
    /\ \E chunk_size \in 1..MaxChunk, overlap_step \in 0..MaxChunk, golden \in GoldenSteps :
          /\ chunk_size_ = chunk_size
          /\ overlap_step_ = OverlapStepOf(chunk_size, overlap_step, golden)
    /\ data = <<>> /\ start = 0 /\ frame_index = 0 /\ frames = <<>>
    /\ ck_pc = "idle" /\ coded = <<>> /\ decoded = <<>>

\* chunk_data(data, callback) is entered: frame_index = 0, start = 0.
ChunkCall(d) ==
    /\ ck_pc = "idle"
    /\ data' = d /\ start' = 0 /\ frame_index' = 0 /\ frames' = <<>>
    /\ ck_pc' = "loop"
    /\ UNCHANGED <<chunk_size_, overlap_step_, coded, decoded>>
    /\ UNCHANGED notChunker

\* One iteration of chunk_data's loop with a callback that records the frame.
\* data.subspan(start, end - start) with end < start asks for more than the
\* span holds (end - start wraps): undefined, the call goes on or dies.
ChunkStep ==
    /\ ck_pc = "loop"
    /\ start < Len(data)
    /\ LET end == FrameEnd(data, start, chunk_size_)
       IN  /\ frames' = Append(frames, [index |-> frame_index, start |-> start,
                                        end |-> end])
           /\ \/ ck_pc' = "loop"
              \/ end < start /\ ck_pc' = "ub"
    /\ frame_index' = frame_index + 1
    /\ start' = Min(start + overlap_step_, Len(data))
    /\ UNCHANGED <<chunk_size_, overlap_step_, data, coded, decoded>>
    /\ UNCHANGED notChunker

\* The loop condition start < total_size fails: chunk_data returns.
ChunkReturn ==
    /\ ck_pc = "loop"
    /\ start >= Len(data)
    /\ ck_pc' = "done"
    /\ UNCHANGED <<chunk_size_, overlap_step_, data, start, frame_index, frames,
                   coded, decoded>>
    /\ UNCHANGED notChunker

NextChunker ==
    \/ \E d \in SeqsUpTo(DataBytes, MaxLen) : ChunkCall(d)
    \/ ChunkStep
    \/ ChunkReturn

\* ----------------------------------------------------------------------
\*  find_boundary called on its own, with inputs long enough for the windows
\* ----------------------------------------------------------------------

\* The number of boundary bytes placed in memory is at most this.
MaxMarks == 2

\* The offsets at which the windows of find_boundary begin and end, for
\* targets next to 0 and next to the window width.
EdgeOffsets == {0, 1, SearchWindow - 1, SearchWindow, SearchWindow + 1,
                SearchWindow + 2}

\* The target_end values find_boundary is called with.
TargetOffsets == EdgeOffsets \cup {SearchWindow + 3}

\* The number of bytes of memory modelled from data.data() on.
MemLen == SearchWindow + 3

\* Memory holding ' ' at the offsets of marks and 'a' everywhere else.
MemoryOf(marks) == [i \in 1..MemLen |-> IF (i - 1) \in marks THEN 32 ELSE 97]

BoundaryParked ==
    /\ fb_mem = <<>> /\ fb_size = 0 /\ fb_target = 0 /\ fb_result = 0
    /\ fb_reads = {} /\ fb_pc = "parked"

\* A span of any of the sizes, with up to MaxMarks boundary bytes in it or
\* behind it; no call yet.
BoundaryInit ==
    /\ \E marks \in {m \in SUBSET EdgeOffsets : Cardinality(m) <= MaxMarks} :
          fb_mem = MemoryOf(marks)
    /\ fb_size \in EdgeOffsets
    /\ fb_target = 0 /\ fb_result = 0 /\ fb_reads = {} /\ fb_pc = "idle"

\* find_boundary(data, target_end) runs to its return. A read of data[i] with
\* i >= data.size() is outside the span: undefined, it yields the byte that
\* lies there or the call dies.
FindBoundary(target_end) ==
    /\ fb_pc = "idle"
    /\ fb_target' = target_end
    /\ LET reads == BoundaryReads(fb_mem, fb_size, target_end)
           outside == \E i \in reads : i >= fb_size
       IN  /\ fb_reads' = reads
           /\ fb_pc' \in (IF outside THEN {"returned", "ub"} ELSE {"returned"})
    /\ fb_result' = find_boundary_in(fb_mem, fb_size, target_end)
    /\ UNCHANGED <<fb_mem, fb_size>>
    /\ UNCHANGED notBoundary

\* The caller takes the result.
FindBoundaryDone ==
    /\ fb_pc = "returned"
    /\ fb_pc' = "done"
    /\ UNCHANGED <<fb_mem, fb_size, fb_target, fb_result, fb_reads>>
    /\ UNCHANGED notBoundary

NextBoundary ==
    \/ \E target_end \in TargetOffsets : FindBoundary(target_end)
    \/ FindBoundaryDone

\* ======================================================================
\*  CircularRAC                                include/gqe/circular_rac.hpp
\* ======================================================================

\* Bound of the coder model.
MaxCalls == 3       \* encode / encode_range / get_output calls between resets

RANGE_BITS == 55

\* A uint64_t is a sequence of WordLimbs limbs of LimbBits bits each, least
\* significant first; the top limb holds the 9 bits 55..63.  Exact
\* (unwrapped) values are kept in WideLimbs limbs.
LimbBits == 11
Base == 2048
WordLimbs == 6
TopLimbMod == 512
WideLimbs == 9

At(X, i) == IF i >= 1 /\ i <= Len(X) THEN X[i] ELSE 0

\* The n low limbs of the number whose column sums are cols.
RECURSIVE Carry(_, _, _, _)
Carry(cols, i, c, n) ==
    IF i > n THEN <<>>
    ELSE LET v == At(cols, i) + c
         IN  <<v % Base>> \o Carry(cols, i + 1, v \div Base, n)

\* The n limbs of a small natural number x.
Limbs(x, n) == Carry(<<x>>, 1, 0, n)

\* Truncation to 64 bits.
Word(X) == [i \in 1..WordLimbs |-> IF i = WordLimbs THEN At(X, i) % TopLimbMod
                                   ELSE At(X, i)]

\* A uint32_t is three limbs (11 + 11 + 10 bits).
Word32(X) == [i \in 1..3 |-> IF i = 3 THEN At(X, i) % 1024 ELSE At(X, i)]

\* X + Y, X - Y (modulo Base^n) and X * c for a count c below 2^31.
AddL(X, Y, n) == Carry([i \in 1..n |-> At(X, i) + At(Y, i)], 1, 0, n)
SubL(X, Y, n) == Carry([i \in 1..n |-> At(X, i) + (Base - 1 - At(Y, i))], 1, 1, n)
MulL(X, c, n) ==
    LET C == Limbs(c, 3)
    IN  Carry([k \in 1..n |-> At(X, k) * C[1] + At(X, k - 1) * C[2]
                                + At(X, k - 2) * C[3]], 1, 0, n)

\* X / d rounded down, for a divisor 0 < d <= 2^20.
RECURSIVE DivFrom(_, _, _, _)
DivFrom(X, i, r, d) ==
    IF i = 0 THEN <<>>
    ELSE LET v == r * Base + X[i]
         IN  DivFrom(X, i - 1, v % d, d) \o <<v \div d>>
DivL(X, d) == DivFrom(X, Len(X), 0, d)

\* X < Y and X <= Y for numbers of the same number of limbs.
Less(X, Y) ==
    \E i \in 1..Len(X) : /\ X[i] < Y[i]
                         /\ \A j \in (i + 1)..Len(X) : X[j] = Y[j]
LessEq(X, Y) == X = Y \/ Less(X, Y)

\* The constants of the class, as words.
RANGE_MASK == <<2047, 2047, 2047, 2047, 2047, 0>>
HALF_RANGE == <<0, 0, 0, 0, 1024, 0>>
FIRST_QUARTER == <<0, 0, 0, 0, 512, 0>>
THIRD_QUARTER == <<0, 0, 0, 0, 1536, 0>>
ZeroWord == <<0, 0, 0, 0, 0, 0>>
OneWord == <<1, 0, 0, 0, 0, 0>>

\* x & RANGE_MASK, (x & HALF_RANGE) >> (RANGE_BITS - 1), x << 1.
MaskRange(X) == [i \in 1..WordLimbs |-> IF i = WordLimbs THEN 0 ELSE X[i]]
HalfBit(X) == (X[5] \div 1024) % 2
ShiftLeft(X) == Word(Carry([i \in 1..WordLimbs |-> 2 * X[i]], 1, 0, WordLimbs))

\* (low_ >> (RANGE_BITS - 8)) & 0xFF
TopByte(X) == (X[5] \div 8) % 256

\* The coder's fields as one record.
CoderState == [low |-> low_, high |-> high_, underflow |-> underflow_count_,
               out |-> output_, cur |-> current_byte_, bits |-> bit_count_]

\* write_bit(bit)
WriteBit(c, bit) ==
    LET byte == (c.cur * 2 + (bit % 2)) % 256
    IN  IF c.bits + 1 = 8
        THEN [c EXCEPT !.out = Append(c.out, byte), !.cur = 0, !.bits = 0]
        ELSE [c EXCEPT !.cur = byte, !.bits = c.bits + 1]

\* while (underflow_count_ > 0) { write_bit(bit); underflow_count_--; }
RECURSIVE WritePending(_, _)
WritePending(c, bit) ==
    IF c.underflow = 0 THEN c
    ELSE WritePending([WriteBit(c, bit) EXCEPT !.underflow = c.underflow - 1], bit)

\* low_ = (low_ << 1) & RANGE_MASK; high_ = ((high_ << 1) & RANGE_MASK) | 1
Shifted(c) ==
    [c EXCEPT !.low = MaskRange(ShiftLeft(c.low)),
              !.high = [MaskRange(ShiftLeft(c.high)) EXCEPT
                           ![1] = (@ \div 2) * 2 + 1]]

\* The loop goes round only while the top bits agree: the middle-half branch
\* is left out.
RenormContinuesSameHalf(c) == HalfBit(c.low) = HalfBit(c.high)

\* The loop of encode_range goes round once more from c: neither branch
\* that precedes the break is skipped.
RenormContinues(c) ==
    \/ HalfBit(c.low) = HalfBit(c.high)
    \/ LessEq(FIRST_QUARTER, c.low) /\ Less(c.high, THIRD_QUARTER)

\* One iteration, with the pending bits written with the value of the bit
\* itself.
RenormStepSameBit(c) ==
    IF HalfBit(c.low) = HalfBit(c.high)
    THEN LET bit == HalfBit(c.low)
         IN  Shifted(WritePending(WriteBit(c, bit), bit))
    ELSE Shifted([c EXCEPT !.underflow = c.underflow + 1,
                           !.low = Word(SubL(c.low, FIRST_QUARTER, WordLimbs)),
                           !.high = Word(SubL(c.high, FIRST_QUARTER, WordLimbs))])

\* One iteration of the renormalization loop that does not break.
RenormStep(c) ==
    IF HalfBit(c.low) = HalfBit(c.high)
    THEN LET bit == HalfBit(c.low)
         IN  Shifted(WritePending(WriteBit(c, bit), 1 - bit))
    ELSE Shifted([c EXCEPT !.underflow = c.underflow + 1,
                           !.low = Word(SubL(c.low, FIRST_QUARTER, WordLimbs)),
                           !.high = Word(SubL(c.high, FIRST_QUARTER, WordLimbs))])

\* The renormalization loop of encode_range.
RECURSIVE Renormalize(_)
Renormalize(c) ==
    IF RenormContinues(c) THEN Renormalize(RenormStep(c)) ELSE c

\* The coder at the top of every iteration of that loop, the one that breaks
\* included.
RECURSIVE RenormIterations(_)
RenormIterations(c) ==
    IF RenormContinues(c) THEN <<c>> \o RenormIterations(RenormStep(c)) ELSE <<c>>

\* The interval without the collapse safeguard.
NarrowedUnguarded(low, high, low_count, high_count, total_sum) ==
    LET range == Word(AddL(SubL(high, low, WordLimbs), OneWord, WordLimbs))
        scaled(count) == DivL(Word(MulL(range, count, WordLimbs)), total_sum)
    IN  [low |-> MaskRange(Word(AddL(low, scaled(low_count), WordLimbs))),
         high |-> MaskRange(Word(SubL(AddL(low, scaled(high_count), WordLimbs),
                                      OneWord, WordLimbs)))]

\* The interval encode_range stores in low_ and high_ before it
\* renormalizes: 64-bit arithmetic, masked, then the collapse safeguard.
Narrowed(low, high, low_count, high_count, total_sum) ==
    LET range == Word(AddL(SubL(high, low, WordLimbs), OneWord, WordLimbs))
        scaled(count) == DivL(Word(MulL(range, count, WordLimbs)), total_sum)
        new_high == MaskRange(Word(SubL(AddL(low, scaled(high_count), WordLimbs),
                                        OneWord, WordLimbs)))
        new_low == MaskRange(Word(AddL(low, scaled(low_count), WordLimbs)))
    IN  [low |-> new_low,
         high |-> IF LessEq(new_high, new_low)
                  THEN Word(AddL(new_low, OneWord, WordLimbs)) ELSE new_high]

\* The coder after encode_range(low_count, high_count, total_sum) from c.
Encoded(c, low_count, high_count, total_sum) ==
    IF total_sum = 0 THEN c
    ELSE LET n == Narrowed(c.low, c.high, low_count, high_count, total_sum)
         IN  Renormalize([c EXCEPT !.low = n.low, !.high = n.high])

\* The coder after flush() from c.
Flushed(c) ==
    LET padded == IF c.bits > 0
                  THEN Append(c.out, (c.cur * (2 ^ (8 - c.bits))) % 256)
                  ELSE c.out
    IN  [c EXCEPT !.out = Append(padded, TopByte(c.low)), !.cur = 0, !.bits = 0]

\* The number of bits written to the stream so far.
StreamBits == 8 * Len(output_) + bit_count_

RacIdle == [op |-> "reset", low_count |-> 0, high_count |-> 0, total_sum |-> 0,
            pre_low |-> ZeroWord, pre_high |-> RANGE_MASK,
            new_low |-> ZeroWord, new_high |-> RANGE_MASK,
            outcome |-> "returned", bits_before |-> 0, pending_before |-> 0,
            loop |-> <<>>]

\* The coder's fields take the values of record c.
CoderBecomes(c) ==
    LET v == c
    IN  /\ low_' = v.low /\ high_' = v.high /\ underflow_count_' = v.underflow
        /\ output_' = v.out /\ current_byte_' = v.cur /\ bit_count_' = v.bits

\* CircularRAC(): reset().
CoderInit ==
    /\ low_ = ZeroWord /\ high_ = RANGE_MASK /\ underflow_count_ = 0
    /\ output_ = <<>> /\ current_byte_ = 0 /\ bit_count_ = 0
    /\ rac_calls = 0 /\ rac_last = RacIdle

\* reset()
RacReset ==
    /\ low_' = ZeroWord /\ high_' = RANGE_MASK /\ underflow_count_' = 0
    /\ output_' = <<>> /\ current_byte_' = 0 /\ bit_count_' = 0
    /\ rac_calls' = 0 /\ rac_last' = RacIdle
    /\ UNCHANGED notCoder

\* The body of encode_range(low_count, high_count, total_sum); op names the
\* public method the call came in through.  The method returns void and has
\* no throw statement: every call returns normally.
EncodeRangeBody(op, low_count, high_count, total_sum) ==
    \E n \in {IF total_sum = 0 THEN [low |-> low_, high |-> high_]
               ELSE Narrowed(low_, high_, low_count, high_count, total_sum)} :
      \E loop \in {IF total_sum = 0 THEN <<>>
                    ELSE RenormIterations([CoderState EXCEPT !.low = n.low,
                                                             !.high = n.high])} :
        /\ IF total_sum = 0
           THEN UNCHANGED <<low_, high_, underflow_count_, output_,
                            current_byte_, bit_count_>>
           ELSE CoderBecomes(loop[Len(loop)])
        /\ rac_last' = [op |-> op, low_count |-> low_count,
                        high_count |-> high_count, total_sum |-> total_sum,
                        pre_low |-> low_, pre_high |-> high_,
                        new_low |-> n.low, new_high |-> n.high,
                        outcome |-> "returned", bits_before |-> StreamBits,
                        pending_before |-> underflow_count_,
                        loop |-> loop]
        /\ rac_calls' = rac_calls + 1
        /\ UNCHANGED notCoder

\* The <<low_count, high_count, total_sum>> triples encode_range is called with.
RangeInputs == {<<0, 512, 1024>>, <<512, 1024, 1024>>, <<2, 3, 5>>, <<0, 1, 3>>,
                <<0, 1, 0>>}

\* encode_range(low_count, high_count, total_sum), called directly.
EncodeRange(low_count, high_count, total_sum) ==
    /\ rac_calls < MaxCalls
    /\ EncodeRangeBody("encode_range", low_count, high_count, total_sum)

\* The distributions encode is called with: all ones, all zeros, and one
\* symbol ('a') much more likely than the rest.
UniformDist == [s \in 0..255 |-> 1]
ZeroDist == [s \in 0..255 |-> 0]
PeakDist == [s \in 0..255 |-> IF s = 97 THEN 1024 ELSE 1]
Distributions == {UniformDist, ZeroDist, PeakDist}

\* The symbols encode is called with.
Symbols == {0, 97, 255}

RECURSIVE SumSeq(_)
SumSeq(q) == IF q = <<>> THEN 0 ELSE q[1] + SumSeq(Tail(q))

\* Lane `lane` of sum_v and of low_sum_v after the 32 iterations of the loop
\* (i = 0, 8, ..., 248).  The entries are small: no 32-bit lane wraps.
SumLane(distribution, lane) ==
    SumSeq([g \in 1..32 |-> distribution[8 * (g - 1) + lane]])
LowSumLane(distribution, actual, lane) ==
    SumSeq([g \in 1..32 |->
        LET i == 8 * (g - 1)
        IN  IF i < actual
            THEN IF i + 8 <= actual THEN distribution[i + lane]
                 ELSE IF 8 - (actual - i) + lane < 8 THEN distribution[i + lane]
                 ELSE 0
            ELSE 0])

\* hsum(v): the sum of the eight lanes.
hsum(lanes) == SumSeq([l \in 1..8 |-> lanes[l - 1]])

\* total_sum, low_cdf and high_cdf as encode(actual, distribution) computes them.
CdfOf(actual, distribution) ==
    LET low_cdf == hsum([l \in 0..7 |-> LowSumLane(distribution, actual, l)])
    IN  [total_sum |-> hsum([l \in 0..7 |-> SumLane(distribution, l)]),
         low_cdf |-> low_cdf,
         high_cdf |-> low_cdf + distribution[actual]]

\* encode(actual, distribution)
Encode(actual, distribution) ==
    /\ rac_calls < MaxCalls
    /\ LET cdf == CdfOf(actual, distribution)
       IN  EncodeRangeBody("encode", cdf.low_cdf, cdf.high_cdf, cdf.total_sum)

\* ----------------------------------------------------------------------
\*  encode's accumulation over full uint32_t entries (lanes wrap at 2^32)
\* ----------------------------------------------------------------------

\* a + b on uint32_t, both in three limbs.
Add32(X, Y) == Word32(AddL(X, Y, 3))

Zero32 == <<0, 0, 0>>

\* The wrapping sum of the limb numbers q[1], ..., q[n].
RECURSIVE Sum32(_, _)
Sum32(q, n) ==
    IF n = 0 THEN Zero32
    ELSE CHOOSE r \in {Add32(p, q[n]) : p \in {Sum32(q, n - 1)}} : TRUE

\* Lane `lane` of v & mask for the partial group starting at i, with the mask
\* read one entry too far to the left: one lane too many is kept.
MaskedLaneWide(distribution, actual, i, lane) ==
    IF 8 - (actual - i) + lane <= 8 THEN distribution[i + lane] ELSE Zero32

\* Lane `lane` of v & mask for the partial group starting at i: mask is
\* mask_data[8 - (actual - i) + lane], which is -1 below index 8 and 0 from
\* there on.
MaskedLane(distribution, actual, i, lane) ==
    IF 8 - (actual - i) + lane < 8 THEN distribution[i + lane] ELSE Zero32

\* Lane `lane` of sum_v and of low_sum_v after the loop over i = 0, 8, ...,
\* 248, each _mm256_add_epi32 wrapping at 2^32.
SumLane32(distribution, lane) ==
    LET column == [g \in 1..32 |-> distribution[8 * (g - 1) + lane]]
    IN  Sum32(column, 32)
LowSumLane32(distribution, actual, lane) ==
    LET column == [g \in 1..32 |->
                      LET i == 8 * (g - 1)
                      IN  IF i < actual
                          THEN IF i + 8 <= actual THEN distribution[i + lane]
                               ELSE MaskedLane(distribution, actual, i, lane)
                          ELSE Zero32]
    IN  Sum32(column, 32)

\* hsum(v): the wrapping sum of the eight lanes.
hsum32(lanes) == Sum32([l \in 1..8 |-> lanes[l - 1]], 8)

\* The arguments encode(actual, distribution) hands to encode_range.
EncodeArgs(actual, distribution) ==
    LET low_cdf == hsum32([l \in 0..7 |-> LowSumLane32(distribution, actual, l)])
    IN  [total_sum |-> hsum32([l \in 0..7 |-> SumLane32(distribution, l)]),
         low_cdf |-> low_cdf,
         high_cdf |-> Add32(low_cdf, distribution[actual])]

\* The values of actual encode is called with: every alignment within a
\* group of 8, in the first, a middle and the last group.
ActualValues == (0..9) \cup {15, 16, 17, 97} \cup (248..255)

\* 0xFFFFFFFF
Max32 == <<2047, 2047, 1023>>

\* The distributions: all entries different and small; all entries
\* 0xFFFFFFFF; large entries that differ from each other; all zero.
RampDist32 == [s \in 0..255 |-> <<s + 1, 0, 0>>]
FullDist32 == [s \in 0..255 |-> Max32]
LargeDist32 == [s \in 0..255 |-> <<(7 * s) % 2048, 2047 - s, 512 + (s % 500)>>]
ZeroDist32 == [s \in 0..255 |-> Zero32]
Distributions32 == {RampDist32, FullDist32, LargeDist32, ZeroDist32}

CdfParked ==
    /\ cdf_actual = 0 /\ cdf_distribution = <<>>
    /\ cdf_args = [total_sum |-> Zero32, low_cdf |-> Zero32, high_cdf |-> Zero32]
    /\ cdf_pc = "parked"

\* encode is about to be called with any of the symbols and distributions.
CdfInit ==
    /\ cdf_actual \in ActualValues
    /\ cdf_distribution \in Distributions32
    /\ cdf_args = [total_sum |-> Zero32, low_cdf |-> Zero32, high_cdf |-> Zero32]
    /\ cdf_pc = "called"

\* encode(actual, distribution) up to its call of encode_range.
EncodeComputesArgs ==
    /\ cdf_pc = "called"
    /\ cdf_args' = EncodeArgs(cdf_actual, cdf_distribution)
    /\ cdf_pc' = "encode_range"
    /\ UNCHANGED <<cdf_actual, cdf_distribution>>
    /\ UNCHANGED notCdf

NextCdf == EncodeComputesArgs

\* ----------------------------------------------------------------------
\*  encode_range, one iteration of its for (;;) loop per step.  The loop's
\*  tests read low_ and high_ only; the inner while loop counts the
\*  uint32_t underflow_count_ down to 0 and is part of the iteration.
\* ----------------------------------------------------------------------
MaxRenormCalls == 2

\* The iterations followed within one call: more than the 55 bits of the
\* interval, so that a loop that is still running then is seen to be.
MaxIterations == 64

\* encode_range's arguments: valid ones, zero-width ones (high_count =
\* low_count), reversed ones, counts above the total, and a zero total.
RenormInputs == {<<0, 1, 3>>, <<1, 1, 3>>, <<3, 3, 3>>, <<0, 0, 1024>>,
                 <<512, 1024, 1024>>, <<700, 700, 1279>>, <<3, 1, 4>>,
                 <<2, 9, 5>>, <<0, 1, 0>>}

RenormParked ==
    /\ rn_low = ZeroWord /\ rn_high = RANGE_MASK /\ rn_pc = "idle"
    /\ rn_calls = 0 /\ rn_last = <<0, 0, 0>> /\ rn_iter = 0

\* CircularRAC(): reset().
RenormInit == RenormParked

\* low_ and high_ as a coder record, for the loop's test and body.
RenormCoder == [low |-> rn_low, high |-> rn_high, underflow |-> 0,
                out |-> <<>>, cur |-> 0, bits |-> 0]

\* encode_range up to the top of the loop: the early return, or the new
\* interval stored in low_ and high_.
EncodeRangeEnter(low_count, high_count, total_sum) ==
    /\ rn_pc = "idle"
    /\ rn_calls < MaxRenormCalls
    /\ rn_calls' = rn_calls + 1
    /\ rn_last' = <<low_count, high_count, total_sum>>
    /\ rn_iter' = 0
    /\ IF total_sum = 0
       THEN UNCHANGED <<rn_low, rn_high, rn_pc>>
       ELSE \E n \in {Narrowed(rn_low, rn_high, low_count, high_count, total_sum)} :
               /\ rn_low' = n.low /\ rn_high' = n.high /\ rn_pc' = "loop"
    /\ UNCHANGED notRenorm

\* One iteration that ends in the two shifts.
RenormIterate ==
    /\ rn_pc = "loop"
    /\ RenormContinues(RenormCoder)
    /\ rn_iter < MaxIterations
    /\ \E c \in {RenormStep(RenormCoder)} :
          rn_low' = c.low /\ rn_high' = c.high
    /\ rn_iter' = rn_iter + 1
    /\ UNCHANGED <<rn_pc, rn_calls, rn_last>>
    /\ UNCHANGED notRenorm

\* The iteration that takes the break: encode_range returns.
RenormBreak ==
    /\ rn_pc = "loop"
    /\ ~RenormContinues(RenormCoder)
    /\ rn_pc' = "idle"
    /\ UNCHANGED <<rn_low, rn_high, rn_calls, rn_last, rn_iter>>
    /\ UNCHANGED notRenorm

NextRenorm ==
    \/ \E t \in RenormInputs : EncodeRangeEnter(t[1], t[2], t[3])
    \/ RenormIterate
    \/ RenormBreak

\* ----------------------------------------------------------------------
\*  Whole streams: reset(), encode(s, distribution) for every s of a
\*  sequence, get_output()
\* ----------------------------------------------------------------------
\* The coder after reset().
ResetCoder == [low |-> ZeroWord, high |-> RANGE_MASK, underflow |-> 0,
               out |-> <<>>, cur |-> 0, bits |-> 0]

\* The coder after encode(s, distribution) for every s of symbols, from c.
RECURSIVE EncodedAll(_, _, _)
EncodedAll(c, symbols, distribution) ==
    IF symbols = <<>> THEN c
    ELSE LET cdf == CdfOf(Head(symbols), distribution)
         IN  CHOOSE r \in {EncodedAll(n, Tail(symbols), distribution) :
                              n \in {Encoded(c, cdf.low_cdf, cdf.high_cdf,
                                             cdf.total_sum)}} : TRUE

\* The bytes get_output() returns after the sequence was coded from reset().
StreamOfSymbols(symbols, distribution) ==
    Flushed(EncodedAll(ResetCoder, symbols, distribution)).out

\* Distributions with no entry below 1: all ones, and one entry 2 (total 257).
SkewDist == [s \in 0..255 |-> IF s = 97 THEN 2 ELSE 1]
PositiveDistributions == {UniformDist, SkewDist}

\* The sequences coded: up to MaxStreamLen symbols.
MaxStreamLen == 2
StreamSymbols == {0, 1, 2, 97}
StreamInputs(n) == [1..n -> StreamSymbols]

StreamParked ==
    /\ st_distribution = ZeroDist /\ st_first = <<>> /\ st_second = <<>>
    /\ st_out = <<>> /\ st_pc = "parked"

\* Two sequences of the same length and one distribution are chosen.
StreamInit ==
    /\ st_distribution \in PositiveDistributions
    /\ \E n \in 1..MaxStreamLen :
          st_first \in StreamInputs(n) /\ st_second \in StreamInputs(n)
    /\ st_out = <<>> /\ st_pc = "drawn"

\* Each sequence is coded by a coder of its own.
CodeBoth ==
    /\ st_pc = "drawn"
    /\ st_out' = <<StreamOfSymbols(st_first, st_distribution),
                   StreamOfSymbols(st_second, st_distribution)>>
    /\ st_pc' = "coded"
    /\ UNCHANGED <<st_distribution, st_first, st_second>>
    /\ UNCHANGED notStream

NextStream == CodeBoth

\* get_output(): flush(), then the stream is returned.
GetOutput ==
    /\ rac_calls < MaxCalls
    /\ CoderBecomes(Flushed(CoderState))
    /\ rac_last' = [RacIdle EXCEPT !.op = "get_output",
                                   !.pre_low = low_, !.pre_high = high_,
                                   !.new_low = low_, !.new_high = high_,
                                   !.bits_before = StreamBits,
                                   !.pending_before = underflow_count_]
    /\ rac_calls' = rac_calls + 1
    /\ UNCHANGED notCoder

NextCoder ==
    \/ RacReset
    \/ \E t \in RangeInputs : EncodeRange(t[1], t[2], t[3])
    \/ \E actual \in Symbols, distribution \in Distributions :
          Encode(actual, distribution)
    \/ GetOutput

\* ======================================================================
\*  CircularRAC::encode                             Examples/gqe_kernel.hpp
\*  SimpleRangeCoder::encode          Examples/intro/gqe_kernel_minimal.hpp
\* ======================================================================
MaxSliceCalls == 4

\* 0xFFFFFFFFFFFFFFFF, and the top bit of a uint64_t and of a uint32_t.
Full64 == <<2047, 2047, 2047, 2047, 2047, 511>>
Top64(X) == X[6] \div 256
Top32(X) == X[3] \div 512

\* x << 1 for a uint32_t.
ShiftLeft32(X) == Word32(Carry([i \in 1..3 |-> 2 * X[i]], 1, 0, 3))

\* x | 1
OrOne(X) == [X EXCEPT ![1] = (@ \div 2) * 2 + 1]

\* CircularRAC::encode up to its while loop: range, symbol_range and the
\* two assignments, all in uint64_t.
Sliced64(low, high, symbol, total_range) ==
    LET range == Word(AddL(SubL(high, low, WordLimbs), OneWord, WordLimbs))
        symbol_range == DivL(range, total_range)
    IN  [high |-> Word(SubL(AddL(low, MulL(symbol_range, symbol + 1, WordLimbs),
                                 WordLimbs), OneWord, WordLimbs)),
         low |-> Word(AddL(low, MulL(symbol_range, symbol, WordLimbs), WordLimbs))]

\* SimpleRangeCoder::encode up to its while loop: high_ - low_ + 1 is a
\* uint32_t before it is widened; the products are cut to uint32_t.
Sliced32(low, high, symbol, range) ==
    LET r == DivL(Word32(AddL(SubL(high, low, 3), <<1, 0, 0>>, 3)), range)
    IN  [high |-> Word32(SubL(AddL(low, Word32(MulL(r, symbol + 1, 3)), 3),
                              <<1, 0, 0>>, 3)),
         low |-> Word32(AddL(low, Word32(MulL(r, symbol, 3)), 3))]

\* while ((low_ ^ high_) < (1ULL << 63)) { push the top bit; shift both }
RECURSIVE Renorm64(_)
Renorm64(c) ==
    IF Top64(c.low) # Top64(c.high) THEN c
    ELSE Renorm64([low |-> ShiftLeft(c.low), high |-> OrOne(ShiftLeft(c.high)),
                   out |-> Append(c.out, Top64(c.low))])

\* while (((low_ ^ high_) & 0x80000000) == 0) { push the top bit; shift both }
RECURSIVE Renorm32(_)
Renorm32(c) ==
    IF Top32(c.low) # Top32(c.high) THEN c
    ELSE Renorm32([low |-> ShiftLeft32(c.low), high |-> OrOne(ShiftLeft32(c.high)),
                   out |-> Append(c.out, Top32(c.low))])

\* The <<symbol, total_range>> pairs encode is called with: symbol < total_range.
SliceInputs == {<<0, 1>>, <<0, 2>>, <<1, 2>>, <<0, 3>>, <<1, 3>>, <<2, 3>>,
                <<3, 5>>, <<4, 5>>, <<0, 256>>, <<1, 256>>, <<97, 256>>,
                <<255, 256>>, <<0, 257>>, <<256, 257>>, <<97, 1279>>,
                <<1278, 1279>>}

SliceIdle == [coder |-> "none", symbol |-> 0, total_range |-> 1,
              pre |-> <<ZeroWord, Full64, <<>>>>,
              stored |-> <<ZeroWord, Full64>>]

SliceParked ==
    /\ xr_low = ZeroWord /\ xr_high = Full64 /\ xr_out = <<>>
    /\ sr_low = Zero32 /\ sr_high = Max32 /\ sr_out = <<>>
    /\ xc_calls = 0 /\ xc_last = SliceIdle

\* CircularRAC() : low_(0), high_(0xFFFFFFFFFFFFFFFF) and
\* SimpleRangeCoder() : low_(0), high_(0xFFFFFFFF)
SliceInit == SliceParked

\* CircularRAC::encode(symbol, total_range)
Encode64(symbol, total_range) ==
    /\ xc_calls < MaxSliceCalls
    /\ \E s \in {Sliced64(xr_low, xr_high, symbol, total_range)} :
         \E c \in {Renorm64([low |-> s.low, high |-> s.high, out |-> xr_out])} :
            /\ xr_low' = c.low /\ xr_high' = c.high /\ xr_out' = c.out
            /\ xc_last' = [coder |-> "CircularRAC", symbol |-> symbol,
                           total_range |-> total_range,
                           pre |-> <<xr_low, xr_high, xr_out>>,
                           stored |-> <<s.low, s.high>>]
    /\ xc_calls' = xc_calls + 1
    /\ UNCHANGED <<sr_low, sr_high, sr_out>>
    /\ UNCHANGED notSlice

\* SimpleRangeCoder::encode(symbol, range)
Encode32(symbol, range) ==
    /\ xc_calls < MaxSliceCalls
    /\ \E s \in {Sliced32(sr_low, sr_high, symbol, range)} :
         \E c \in {Renorm32([low |-> s.low, high |-> s.high, out |-> sr_out])} :
            /\ sr_low' = c.low /\ sr_high' = c.high /\ sr_out' = c.out
            /\ xc_last' = [coder |-> "SimpleRangeCoder", symbol |-> symbol,
                           total_range |-> range,
                           pre |-> <<sr_low, sr_high, sr_out>>,
                           stored |-> <<s.low, s.high>>]
    /\ xc_calls' = xc_calls + 1
    /\ UNCHANGED <<xr_low, xr_high, xr_out>>
    /\ UNCHANGED notSlice

NextSlice ==
    \/ \E t \in SliceInputs : Encode64(t[1], t[2])
    \/ \E t \in SliceInputs : Encode32(t[1], t[2])

\* ======================================================================
\*  BekensteinArena under GQECompressor::compress   Examples/gqe_kernel.hpp
\* ======================================================================
\* 233 * 1024 and 256 * 1024
HORIZON_FRAME_SIZE == 238592
BEKENSTEIN_BUFFER == 262144

MaxArenaFrames == 2

\* chunk.size() of a frame: the chunker cuts at most 4096 bytes after
\* start + HORIZON_FRAME_SIZE.
FrameLengths == {1, 3, 1000, 14563, 14564, 16384, 16385, 65536, 65537,
                 HORIZON_FRAME_SIZE, HORIZON_FRAME_SIZE + 4096}

\* allocate<T>(count) with sizeof(T) = alignof(T) = size, from offset:
\* whether it throws std::bad_alloc, and offset_ after it if it does not.
ArenaAllocate(offset, count, size) ==
    LET bytes_needed == count * size
        aligned_offset == ((offset + size - 1) \div size) * size
    IN  [throws |-> aligned_offset + bytes_needed > BEKENSTEIN_BUFFER,
         offset |-> aligned_offset + bytes_needed]

FrameArenaParked ==
    /\ fa_len = 0 /\ fa_offset = 0 /\ fa_k = 0 /\ fa_frames = 0
    /\ fa_pc = "parked"

\* compress is entered: arena_.reset(), and chunk_data is about to deliver
\* its first frame.
FrameArenaInit ==
    /\ fa_len = 0 /\ fa_offset = 0 /\ fa_k = 0 /\ fa_frames = 0
    /\ fa_pc = "callback"

\* chunk_data calls the callback with a frame of len bytes; the callback
\* starts with mixer_.train, which calls vectorized_hash.
FrameDelivered(len) ==
    /\ fa_pc = "callback"
    /\ fa_frames < MaxArenaFrames
    /\ fa_len' = len /\ fa_k' = 0 /\ fa_pc' = "train"
    /\ UNCHANGED <<fa_offset, fa_frames>>
    /\ UNCHANGED notFrameArena

\* hashes[i] = arena_.allocate<uint32_t>(len), in vectorized_hash; after
\* the fourth the caller goes on to `after`.
HashAllocate(at, after) ==
    /\ fa_pc = at
    /\ LET a == ArenaAllocate(fa_offset, fa_len, 4)
       IN  IF a.throws
           THEN fa_pc' = "bad_alloc" /\ UNCHANGED <<fa_offset, fa_k>>
           ELSE /\ fa_offset' = a.offset
                /\ fa_k' = (fa_k + 1) % 4
                /\ fa_pc' = IF fa_k = 3 THEN after ELSE at
    /\ UNCHANGED notFrameArena

\* train's call of vectorized_hash.
TrainHashAllocate ==
    /\ HashAllocate("train", "reset")
    /\ UNCHANGED <<fa_len, fa_frames>>

\* arena_.reset() in the callback.
FrameReset ==
    /\ fa_pc = "reset"
    /\ fa_offset' = 0 /\ fa_pc' = "ranks"
    /\ UNCHANGED <<fa_len, fa_k, fa_frames>>
    /\ UNCHANGED notFrameArena

\* auto ranks = arena_.allocate<uint8_t>(chunk.size())
AllocateRanks ==
    /\ fa_pc = "ranks"
    /\ LET a == ArenaAllocate(fa_offset, fa_len, 1)
       IN  IF a.throws THEN fa_pc' = "bad_alloc" /\ UNCHANGED fa_offset
           ELSE fa_offset' = a.offset /\ fa_pc' = "qprobs"
    /\ UNCHANGED <<fa_len, fa_k, fa_frames>>
    /\ UNCHANGED notFrameArena

\* auto qprobs = arena_.allocate<uint8_t>(chunk.size())
AllocateQprobs ==
    /\ fa_pc = "qprobs"
    /\ LET a == ArenaAllocate(fa_offset, fa_len, 1)
       IN  IF a.throws THEN fa_pc' = "bad_alloc" /\ UNCHANGED fa_offset
           ELSE fa_offset' = a.offset /\ fa_pc' = "predict"
    /\ UNCHANGED <<fa_len, fa_k, fa_frames>>
    /\ UNCHANGED notFrameArena

\* predict_batch's call of vectorized_hash; after it the ranks are encoded
\* and the callback returns.
PredictHashAllocate ==
    /\ HashAllocate("predict", "callback")
    /\ fa_frames' = IF fa_pc' = "callback" THEN fa_frames + 1 ELSE fa_frames
    /\ UNCHANGED fa_len

NextFrameArena ==
    \/ \E len \in FrameLengths : FrameDelivered(len)
    \/ TrainHashAllocate
    \/ FrameReset
    \/ AllocateRanks
    \/ AllocateQprobs
    \/ PredictHashAllocate

\* ======================================================================
\*  GeometricParallelMixer::train                   Examples/gqe_kernel.hpp
\* ======================================================================

\* Bound of the training model.
MaxObserved == 4    \* bytes one train call counts for one table entry

\* The byte values train sees in the modelled context.
TrainSymbols == {0, 97, 255}

\* Entry{0, {}, false}: what ContextTable::reset() fills the table with.
EmptyEntry == [valid |-> FALSE, probabilities |-> [b \in 0..255 |-> 0]]

\* counts[ctx][h][b] after the counting loop, for the bytes obs of the entry.
CountOf(obs, b) == Cardinality({i \in 1..Len(obs) : obs[i] = b})

\* static_cast<uint8_t>(((count + 1.0f) / (total + 256.0f)) * 255.0f): the
\* float product truncated toward zero.  For every total up to 3000 the
\* float result equals the integer quotient below.
Quantize(count, total) == (255 * (count + 1)) \div (total + 256)

TrainInit == tr_observed = <<>> /\ tr_entry = EmptyEntry

\* train(data, len) as it acts on one entry (ctx, h): obs are the bytes
\* data[i] with hashes[ctx][i] == h.  With total > 0 the entry is overwritten
\* by tables_[ctx].update(h, probs); with total == 0 it is left alone.
Train(obs) ==
    /\ LET total == Len(obs)
       IN  tr_entry' = IF total > 0
                       THEN [valid |-> TRUE,
                             probabilities |->
                                 [b \in 0..255 |-> Quantize(CountOf(obs, b), total)]]
                       ELSE tr_entry
    /\ tr_observed' = obs
    /\ UNCHANGED notTrain

NextTrain == \E obs \in SeqsUpTo(TrainSymbols, MaxObserved) : Train(obs)

\* ======================================================================
\*  GQECompressor::compress of the examples         Examples/gqe_kernel.hpp
\* ======================================================================

CONTEXT_SIZES == <<1, 2, 4, 8>>

\* 2166136261U and 16777619U of the FNV-1a loop.
FNV_OFFSET == <<1477, 915, 516>>
FNV_PRIME == 16777619

\* PHI_U64 = 6949403136 = PHI_HIGH * 2^22 + PHI_LOW.
PHI_HIGH == 1656
PHI_LOW == 3635712

\* a ^ b on n bits.
RECURSIVE XorBits(_, _, _)
XorBits(a, b, n) ==
    IF n = 0 THEN 0
    ELSE ((a + b) % 2) + 2 * XorBits(a \div 2, b \div 2, n - 1)

\* h ^= byte; h *= 16777619U, over the bytes of window.
RECURSIVE Fnv1a(_, _)
Fnv1a(h, window) ==
    IF window = <<>> THEN h
    ELSE Fnv1a(Word32(MulL([h EXCEPT ![1] = XorBits(h[1], window[1], LimbBits)],
                            FNV_PRIME, 3)),
               Tail(window))

\* FibonacciHasher::hash(key, 16384): bits 32..45 of key * PHI_U64.
FibonacciHash(key) ==
    LET product == AddL(MulL(key, PHI_LOW, WordLimbs),
                        <<0, 0>> \o MulL(key, PHI_HIGH, WordLimbs - 2), WordLimbs)
    IN  (product[3] \div 1024) + 2 * product[4] + 4096 * (product[5] % 4)

\* hashes[ctx_idx][i] of vectorized_hash (ctx_idx and i 0-based).
ContextHash(chunk, ctx_idx, i) ==
    LET ctx_size == CONTEXT_SIZES[ctx_idx + 1]
    IN  IF i < ctx_size THEN 0
        ELSE FibonacciHash(Fnv1a(FNV_OFFSET, SubSeq(chunk, i - ctx_size + 1, i)))

\* hashes[ctx_idx][from - 1 ..] as a sequence, and the four rows of
\* vectorized_hash(chunk): Hashes(chunk)[ctx_idx + 1][i + 1] is hashes[ctx_idx][i].
RECURSIVE HashRow(_, _, _)
HashRow(chunk, ctx_idx, from) ==
    IF from > Len(chunk) THEN <<>>
    ELSE <<ContextHash(chunk, ctx_idx, from - 1)>> \o HashRow(chunk, ctx_idx, from + 1)
Hashes(chunk) ==
    <<HashRow(chunk, 0, 1), HashRow(chunk, 1, 1), HashRow(chunk, 2, 1),
      HashRow(chunk, 3, 1)>>

\* tables_ after train(chunk), hashes being Hashes(chunk): every entry
\* <<ctx, h>> some position of the chunk hashes to is overwritten with the
\* quantized counts of the bytes at those positions; the others are kept.
TrainedTables(tables, chunk, hashes) ==
    LET touched == {<<ctx, hashes[ctx + 1][i]>> : ctx \in 0..3, i \in 1..Len(chunk)}
    IN  [key \in (DOMAIN tables) \cup touched |->
            IF key \in touched
            THEN LET hits == {i \in 1..Len(chunk) : hashes[key[1] + 1][i] = key[2]}
                 IN  [b \in 0..255 |->
                        Quantize(Cardinality({i \in hits : chunk[i] = b}),
                                 Cardinality(hits))]
            ELSE tables[key]]

\* weights_[ctx]: std::fill_n(weights_, 4, 64).
MixWeight == 64

\* mixed_probs of predict_batch at position i (0-based): uint8_t sums.
MixedProbs(tables, hashes, i) ==
    LET part(ctx, j) ==
            LET key == <<ctx, hashes[ctx + 1][i + 1]>>
            IN  IF key \in DOMAIN tables
                THEN ((tables[key][j] * MixWeight) \div 256) % 256
                ELSE MixWeight
    IN  [j \in 0..255 |-> (part(0, j) + part(1, j) + part(2, j) + part(3, j)) % 256]

\* ranks[i]: the bytes with a higher mixed probability, ties broken by value.
RankOf(mixed, actual) ==
    Cardinality({j \in 0..255 : \/ mixed[j] > mixed[actual]
                                \/ mixed[j] = mixed[actual] /\ j < actual}) % 256

ExParked ==
    /\ ex_chunk_size = 1 /\ ex_data = <<>> /\ ex_start = 0 /\ ex_frames = <<>>
    /\ ex_tables = <<>> /\ ex_preds = <<>> /\ ex_ranks = <<>> /\ ex_pc = "parked"

\* GQECompressor(chunk_size): empty tables, nothing encoded.
ExInit ==
    /\ ex_chunk_size \in 1..MaxChunk
    /\ ex_data = <<>> /\ ex_start = 0 /\ ex_frames = <<>>
    /\ ex_tables = <<>> /\ ex_preds = <<>> /\ ex_ranks = <<>> /\ ex_pc = "idle"

\* compress(data) is entered: chunk_data starts with start = 0.
ExCompressCall(d) ==
    /\ ex_pc = "idle"
    /\ ex_data' = d /\ ex_start' = 0 /\ ex_frames' = <<>>
    /\ ex_pc' = "loop"
    /\ UNCHANGED <<ex_chunk_size, ex_tables, ex_preds, ex_ranks>>
    /\ UNCHANGED notEx

\* One iteration of chunk_data's loop with compress's callback: train on the
\* chunk, predict every position, encode every rank; then start = end.
\* The model follows at most MaxLen + 1 iterations of one call.
ExFrame ==
    /\ ex_pc = "loop"
    /\ ex_start < Len(ex_data)
    /\ Len(ex_frames) <= MaxLen
    /\ LET end == FrameEnd(ex_data, ex_start, ex_chunk_size)
           chunk == SubSeq(ex_data, ex_start + 1, end)
           hashes == Hashes(chunk)
           trained == TrainedTables(ex_tables, chunk, hashes)
           mixed == [i \in 1..Len(chunk) |-> MixedProbs(trained, hashes, i - 1)]
       IN  /\ ex_frames' = Append(ex_frames, [start |-> ex_start, end |-> end])
           /\ ex_start' = end
           /\ IF end < ex_start
              THEN /\ ex_pc' = "ub"
                   /\ UNCHANGED <<ex_tables, ex_preds, ex_ranks>>
              ELSE /\ ex_pc' = "loop"
                   /\ ex_tables' = trained
                   /\ ex_preds' = ex_preds \o mixed
                   /\ ex_ranks' = ex_ranks \o [i \in 1..Len(chunk) |->
                                                  RankOf(mixed[i], chunk[i])]
    /\ UNCHANGED <<ex_chunk_size, ex_data>>
    /\ UNCHANGED notEx

\* The loop condition start < total_size fails: compress returns.
ExReturn ==
    /\ ex_pc = "loop"
    /\ ex_start >= Len(ex_data)
    /\ ex_pc' = "done"
    /\ UNCHANGED <<ex_chunk_size, ex_data, ex_start, ex_frames, ex_tables,
                   ex_preds, ex_ranks>>
    /\ UNCHANGED notEx

NextEx ==
    \/ \E d \in SeqsUpTo(DataBytes, MaxLen) : ExCompressCall(d)
    \/ ExFrame
    \/ ExReturn

\* ======================================================================
\*  GQECompressor::compress                      include/gqe/compressor.hpp
\* ======================================================================

\* Bound of the compress model.
MaxCompressCalls == 2   \* compress calls on one compressor
MaxCompressLen == 3     \* data.size() of a compress call is at most this

\* The refresh cadence of compress ("every 233 bytes").
FIBONACCI_GRAIN == 233

\* mixer_ is a GeometricParallelMixer with predict, update and refresh; the
\* class is not among the sources.  It is modelled after the predictor of the
\* specification, reduced to one context entry: raw counts, quantized
\* probabilities, and a touched marker; the entry outlives frames and calls.
\* counts and probs list the symbols observed so far; every other symbol has
\* count 0 and the quantized probability `rest`.
MixerFresh == [counts |-> <<>>, probs |-> [rest |-> 128, seen |-> <<>>],
               touched |-> FALSE]

CountIn(counts, b) == IF b \in DOMAIN counts THEN counts[b] ELSE 0

\* predict: the combined distribution is the entry's quantized probabilities.
MixerPredict(m) ==
    [b \in 0..255 |-> IF b \in DOMAIN m.probs.seen THEN m.probs.seen[b]
                      ELSE m.probs.rest]

\* update: the observed symbol's raw count goes up, the entry is touched.
MixerUpdate(m, actual) ==
    [m EXCEPT !.counts = [b \in (DOMAIN m.counts) \cup {actual} |->
                             CountIn(m.counts, b) + (IF b = actual THEN 1 ELSE 0)],
              !.touched = TRUE]

\* prob[s] = clamp(round((count[s] + 0.5) * 255 / (total + 1)), 1, 255)
Requantize(count, total) ==
    Max(1, Min(255, ((2 * count + 1) * 255 + (total + 1)) \div (2 * (total + 1))))

\* The sum of f over the set S.
RECURSIVE SumOver(_, _)
SumOver(f, S) ==
    IF S = {} THEN 0
    ELSE LET x == CHOOSE y \in S : TRUE IN f[x] + SumOver(f, S \ {x})

\* refresh: a touched entry is requantized from its raw counts.
MixerRefresh(m) ==
    IF ~m.touched THEN m
    ELSE LET total == SumOver(m.counts, DOMAIN m.counts)
         IN  [m EXCEPT !.probs = [rest |-> Requantize(0, total),
                                  seen |-> [b \in DOMAIN m.counts |->
                                               Requantize(m.counts[b], total)]],
                       !.touched = FALSE]

MixerState == [counts |-> mx_counts, probs |-> mx_probs, touched |-> mx_touched]

MixerBecomes(m) ==
    /\ mx_counts' = m.counts /\ mx_probs' = m.probs /\ mx_touched' = m.touched

\* The callback's loop over the frame from position i (1-based) on: predict,
\* rac_.encode, update, and refresh when (i + 1) % FIBONACCI_GRAIN == 0 for
\* the 0-based i.  st is [coder, mixer].
RECURSIVE CodedFrame(_, _, _)
CodedFrame(st, chunk, i) ==
    IF i > Len(chunk) THEN st
    ELSE LET mixed_probs == MixerPredict(st.mixer)
             cdf == CdfOf(chunk[i], mixed_probs)
             coder == Encoded(st.coder, cdf.low_cdf, cdf.high_cdf, cdf.total_sum)
             updated == MixerUpdate(st.mixer, chunk[i])
             mixer == IF i % FIBONACCI_GRAIN = 0 THEN MixerRefresh(updated)
                      ELSE updated
         IN  CodedFrame([coder |-> coder, mixer |-> mixer], chunk, i + 1)

MixerParked ==
    /\ mx_counts = MixerFresh.counts /\ mx_probs = MixerFresh.probs
    /\ mx_touched = FALSE /\ cm_calls = 0 /\ cm_first = <<>>

\* GQECompressor(chunk_size): chunker_(chunk_size), so the chunker's
\* overlap_step argument is its default 0; rac_ is reset, mixer_ is fresh.
CompressorInit ==
    /\ \E chunk_size \in 1..MaxChunk, golden \in GoldenSteps :
          /\ chunk_size_ = chunk_size
          /\ overlap_step_ = OverlapStepOf(chunk_size, 0, golden)
    /\ data = <<>> /\ start = 0 /\ frame_index = 0 /\ frames = <<>>
    /\ ck_pc = "idle" /\ coded = <<>> /\ decoded = <<>>
    /\ CoderInit
    /\ MixerParked

\* The entry of compress(d): rac_.reset(), then chunk_data is entered.
CompressEntry(d) ==
    /\ data' = d /\ start' = 0 /\ frame_index' = 0 /\ frames' = <<>>
    /\ coded' = <<>>
    /\ ck_pc' = "loop"
    /\ low_' = ZeroWord /\ high_' = RANGE_MASK /\ underflow_count_' = 0
    /\ output_' = <<>> /\ current_byte_' = 0 /\ bit_count_' = 0
    /\ cm_calls' = cm_calls + 1
    /\ UNCHANGED <<chunk_size_, overlap_step_, decoded, rac_calls, rac_last,
                   mx_counts, mx_probs, mx_touched, cm_first>>
    /\ UNCHANGED notCompress

\* compress(data), the first call on the compressor.
CompressCall(d) ==
    /\ ck_pc = "idle"
    /\ CompressEntry(d)

\* compress(data) again on the same compressor, with the same input.
CompressRepeat ==
    /\ ck_pc = "compressed"
    /\ cm_calls < MaxCompressCalls
    /\ CompressEntry(data)

\* One iteration of chunk_data's loop with compress's callback: every byte
\* chunk[i], i < chunk.size(), is predicted, given to rac_.encode and fed to
\* update, in order; refresh ends the frame.  With end < start the subspan is
\* undefined and the call dies in the byte loop.
CompressFrame ==
    /\ ck_pc = "loop"
    /\ start < Len(data)
    /\ LET end == FrameEnd(data, start, chunk_size_)
           chunk == SubSeq(data, start + 1, end)
           st == CodedFrame([coder |-> CoderState, mixer |-> MixerState], chunk, 1)
       IN  /\ frames' = Append(frames, [index |-> frame_index, start |-> start,
                                        end |-> end])
           /\ IF end < start
              THEN /\ ck_pc' = "ub" /\ coded' = coded
                   /\ UNCHANGED <<low_, high_, underflow_count_, output_,
                                  current_byte_, bit_count_,
                                  mx_counts, mx_probs, mx_touched>>
              ELSE /\ ck_pc' = "loop" /\ coded' = coded \o chunk
                   /\ CoderBecomes(st.coder)
                   /\ MixerBecomes(MixerRefresh(st.mixer))
    /\ frame_index' = frame_index + 1
    /\ start' = Min(start + overlap_step_, Len(data))
    /\ UNCHANGED <<chunk_size_, overlap_step_, data, decoded, rac_calls, rac_last,
                   cm_calls, cm_first>>
    /\ UNCHANGED notCompress

\* chunk_data returns and compress returns rac_.get_output().
CompressReturn ==
    /\ ck_pc = "loop"
    /\ start >= Len(data)
    /\ ck_pc' = "compressed"
    /\ CoderBecomes(Flushed(CoderState))
    /\ cm_first' = IF cm_calls = 1 THEN Flushed(CoderState).out ELSE cm_first
    /\ UNCHANGED <<chunk_size_, overlap_step_, data, start, frame_index, frames,
                   coded, decoded, rac_calls, rac_last,
                   mx_counts, mx_probs, mx_touched, cm_calls>>
    /\ UNCHANGED notCompress

\* ----------------------------------------------------------------------
\*  compress's callback on one frame, one call on mixer_ or rac_ at a time
\* ----------------------------------------------------------------------

\* Frames hold up to this many refresh intervals, and one byte more.
MaxGrains == 2

\* chunk.size(): 0, 1, and the sizes next to the multiples of the interval.
FrameSizes ==
    {n \in 0..(MaxGrains * FIBONACCI_GRAIN + 1) :
        \/ n <= 1
        \/ n % FIBONACCI_GRAIN \in {0, 1, FIBONACCI_GRAIN - 1}}

\* if ((i + 1) % FIBONACCI_GRAIN == 0), with the test one position late.
RefreshDueLate(i) == i % FIBONACCI_GRAIN = 0

\* if ((i + 1) % FIBONACCI_GRAIN == 0)
RefreshDue(i) == (i + 1) % FIBONACCI_GRAIN = 0

Called(call, i) == Append(cb_log, [call |-> call, i |-> i])

CallbackParked == cb_n = 0 /\ cb_i = 0 /\ cb_pc = "parked" /\ cb_log = <<>>

\* The callback is entered with a frame of any of the sizes; i = 0.
CallbackInit ==
    /\ cb_n \in FrameSizes
    /\ cb_i = 0 /\ cb_pc = "loop" /\ cb_log = <<>>

\* i < chunk.size(): mixer_.predict(hashes, i, mixed_probs)
CbPredict ==
    /\ cb_pc = "loop" /\ cb_i < cb_n
    /\ cb_log' = Called("predict", cb_i)
    /\ cb_pc' = "encode"
    /\ UNCHANGED <<cb_n, cb_i>>
    /\ UNCHANGED notCallback

\* rac_.encode(chunk[i], mixed_probs)
CbEncode ==
    /\ cb_pc = "encode"
    /\ cb_log' = Called("encode", cb_i)
    /\ cb_pc' = "update"
    /\ UNCHANGED <<cb_n, cb_i>>
    /\ UNCHANGED notCallback

\* mixer_.update(hashes, i, chunk[i])
CbUpdate ==
    /\ cb_pc = "update"
    /\ cb_log' = Called("update", cb_i)
    /\ cb_pc' = "cadence"
    /\ UNCHANGED <<cb_n, cb_i>>
    /\ UNCHANGED notCallback

\* The cadence test holds: mixer_.refresh(); ++i
CbRefresh ==
    /\ cb_pc = "cadence" /\ RefreshDue(cb_i)
    /\ cb_log' = Called("refresh", cb_i)
    /\ cb_i' = cb_i + 1
    /\ cb_pc' = "loop"
    /\ UNCHANGED cb_n
    /\ UNCHANGED notCallback

\* The cadence test fails: ++i
CbNoRefresh ==
    /\ cb_pc = "cadence" /\ ~RefreshDue(cb_i)
    /\ cb_i' = cb_i + 1
    /\ cb_pc' = "loop"
    /\ UNCHANGED <<cb_n, cb_log>>
    /\ UNCHANGED notCallback

\* i < chunk.size() fails: the closing mixer_.refresh(), and the callback
\* returns.
CbFinalRefresh ==
    /\ cb_pc = "loop" /\ cb_i >= cb_n
    /\ cb_log' = Called("refresh", cb_i)
    /\ cb_pc' = "done"
    /\ UNCHANGED <<cb_n, cb_i>>
    /\ UNCHANGED notCallback

NextCallback ==
    \/ CbPredict
    \/ CbEncode
    \/ CbUpdate
    \/ CbRefresh
    \/ CbNoRefresh
    \/ CbFinalRefresh

\* The byte offsets the frames fs cover, in the order compress visits them.
RECURSIVE FramePositions(_)
FramePositions(fs) ==
    IF fs = <<>> THEN <<>>
    ELSE LET f == fs[Len(fs)]
         IN  FramePositions(SubSeq(fs, 1, Len(fs) - 1))
                 \o [i \in 1..(f.end - f.start) |-> f.start + i - 1]

\* The buffer of n zero bytes after the symbols syms were stored at the
\* offsets pos, in order.
Replay(pos, syms, n) ==
    [k \in 1..n |->
        LET hits == {j \in 1..Len(pos) : pos[j] = k - 1}
        IN  IF hits = {} THEN 0 ELSE syms[SetMax(hits)]]

\* decompress(compress(data)) as the specification describes it: the decoder
\* walks the same frames and recovers, for every call compress made to
\* rac_.encode, the symbol that call was given, and stores it at that call's
\* offset.  The code base has no decoder; the coder is taken to be lossless.
Decompress ==
    /\ ck_pc = "compressed"
    /\ decoded' = Replay(FramePositions(frames), coded, Len(data))
    /\ ck_pc' = "decompressed"
    /\ UNCHANGED <<chunk_size_, overlap_step_, data, start, frame_index, frames,
                   coded>>
    /\ UNCHANGED <<coderVars, mixerVars>>
    /\ UNCHANGED notCompress

NextCompress ==
    \/ \E d \in SeqsUpTo(DataBytes, MaxCompressLen) : CompressCall(d)
    \/ CompressRepeat
    \/ CompressFrame
    \/ CompressReturn
    \/ Decompress

\* ----------------------------------------------------------------------
\*  The specifications
\* ----------------------------------------------------------------------

CoderParked ==
    /\ low_ = ZeroWord /\ high_ = RANGE_MASK /\ underflow_count_ = 0
    /\ output_ = <<>> /\ current_byte_ = 0 /\ bit_count_ = 0
    /\ rac_calls = 0 /\ rac_last = [RacIdle EXCEPT !.op = "parked"]

TrainParked == tr_observed = <<>> /\ tr_entry = EmptyEntry

InitArena == ArenaInit /\ ChunkerParked /\ CoderParked /\ TrainParked /\ ExParked /\ MixerParked /\ BoundaryParked
    /\ CallbackParked
    /\ CdfParked
    /\ RenormParked
    /\ StreamParked
    /\ SliceParked
    /\ FrameArenaParked

SpecArena == InitArena /\ [][NextArena]_vars

ArenaParked ==
    /\ blocks_ = <<>> /\ current_block_index_ = 0 /\ entropy_free_mode_ = FALSE
    /\ total_allocated = 0 /\ coherence_factor = 1000 /\ guards = <<>>
    /\ regions = <<>> /\ arena_last = ArenaIdle /\ cycle = CycleInit

InitChunker == ChunkerInit /\ ArenaParked /\ CoderParked /\ TrainParked /\ ExParked /\ MixerParked /\ BoundaryParked
    /\ CallbackParked
    /\ CdfParked
    /\ RenormParked
    /\ StreamParked
    /\ SliceParked
    /\ FrameArenaParked

SpecChunker == InitChunker /\ [][NextChunker]_vars

InitCompress == CompressorInit /\ ArenaParked /\ TrainParked /\ ExParked /\ BoundaryParked
    /\ CallbackParked
    /\ CdfParked
    /\ RenormParked
    /\ StreamParked
    /\ SliceParked
    /\ FrameArenaParked

SpecCompress == InitCompress /\ [][NextCompress]_vars

InitBoundary == BoundaryInit /\ ArenaParked /\ ChunkerParked /\ CoderParked /\ TrainParked /\ ExParked /\ MixerParked
    /\ CallbackParked
    /\ CdfParked
    /\ RenormParked
    /\ StreamParked
    /\ SliceParked
    /\ FrameArenaParked

SpecBoundary == InitBoundary /\ [][NextBoundary]_vars

InitCallback == CallbackInit /\ ArenaParked /\ ChunkerParked /\ CoderParked /\ TrainParked /\ ExParked /\ MixerParked /\ BoundaryParked
    /\ CdfParked
    /\ RenormParked
    /\ StreamParked
    /\ SliceParked
    /\ FrameArenaParked

SpecCallback == InitCallback /\ [][NextCallback]_vars

InitCdf == CdfInit /\ ArenaParked /\ ChunkerParked /\ CoderParked /\ TrainParked /\ ExParked /\ MixerParked /\ BoundaryParked /\ CallbackParked
    /\ RenormParked
    /\ StreamParked
    /\ SliceParked
    /\ FrameArenaParked

SpecCdf == InitCdf /\ [][NextCdf]_vars

InitRenorm == RenormInit /\ ArenaParked /\ ChunkerParked /\ CoderParked /\ TrainParked /\ ExParked /\ MixerParked /\ BoundaryParked /\ CallbackParked /\ CdfParked
    /\ StreamParked
    /\ SliceParked
    /\ FrameArenaParked

SpecRenorm == InitRenorm /\ [][NextRenorm]_vars

\* A step that counts one more iteration: under NextRenorm these are the
\* RenormIterate steps, and it is enabled exactly when RenormIterate is.
RenormAdvance ==
    /\ rn_pc = "loop"
    /\ RenormContinues(RenormCoder)
    /\ rn_iter < MaxIterations
    /\ rn_iter' = rn_iter + 1

\* The thread that called encode_range keeps running: an iteration that can
\* be taken is taken.
SpecRenormFair ==
    SpecRenorm /\ WF_rn_iter(RenormAdvance) /\ WF_renormVars(RenormBreak)

InitStream == StreamInit /\ ArenaParked /\ ChunkerParked /\ CoderParked /\ TrainParked /\ ExParked /\ MixerParked /\ BoundaryParked /\ CallbackParked /\ CdfParked /\ RenormParked
    /\ SliceParked
    /\ FrameArenaParked

SpecStream == InitStream /\ [][NextStream]_vars

InitSlice == SliceInit /\ ArenaParked /\ ChunkerParked /\ CoderParked /\ TrainParked /\ ExParked /\ MixerParked /\ BoundaryParked /\ CallbackParked /\ CdfParked /\ RenormParked /\ StreamParked
    /\ FrameArenaParked

SpecSlice == InitSlice /\ [][NextSlice]_vars

InitFrameArena == FrameArenaInit /\ ArenaParked /\ ChunkerParked /\ CoderParked /\ TrainParked /\ ExParked /\ MixerParked /\ BoundaryParked /\ CallbackParked /\ CdfParked /\ RenormParked /\ StreamParked /\ SliceParked

SpecFrameArena == InitFrameArena /\ [][NextFrameArena]_vars

InitCoder == CoderInit /\ ArenaParked /\ ChunkerParked /\ TrainParked /\ ExParked /\ MixerParked /\ BoundaryParked
    /\ CallbackParked
    /\ CdfParked
    /\ RenormParked
    /\ StreamParked
    /\ SliceParked
    /\ FrameArenaParked

SpecCoder == InitCoder /\ [][NextCoder]_vars

InitTrain == TrainInit /\ ArenaParked /\ ChunkerParked /\ CoderParked /\ ExParked /\ MixerParked /\ BoundaryParked
    /\ CallbackParked
    /\ CdfParked
    /\ RenormParked
    /\ StreamParked
    /\ SliceParked
    /\ FrameArenaParked

SpecTrain == InitTrain /\ [][NextTrain]_vars

InitEx == ExInit /\ ArenaParked /\ ChunkerParked /\ CoderParked /\ TrainParked /\ MixerParked /\ BoundaryParked
    /\ CallbackParked
    /\ CdfParked
    /\ RenormParked
    /\ StreamParked
    /\ SliceParked
    /\ FrameArenaParked

SpecEx == InitEx /\ [][NextEx]_vars

\* ----------------------------------------------------------------------
\*  Claims about the arena
\* ----------------------------------------------------------------------

\* C7: while an EntropyFreeScope guard is alive (and nobody toggled the mode
\* by hand under it), an allocate call on the arena throws.
C7_AllocateUnderGuardThrows ==
    (arena_last.op = "allocate" /\ guards # <<>> /\ ~arena_last.tampered)
        => arena_last.result = "throw"

\* C8: when a guard is destroyed (and nobody toggled the mode by hand under
\* it), entropy_free_mode_ equals the value it had immediately before that
\* guard was constructed.
C8_DtorRestoresFlag ==
    (arena_last.op = "guard_dtor" /\ ~arena_last.tampered)
        => entropy_free_mode_ = arena_last.flag_before

\* C9: once a reset(); <sequence> cycle has run, running reset() and the same
\* sequence of served requests again leaves the number of blocks the same.
C9_BlocksStableAcrossCycles ==
    (cycle.prev_valid /\ ServedSizes = cycle.prev)
        => Len(blocks_) = cycle.prev_blocks

FrameOffsets(f) == {k \in 0..(Len(data) - 1) : f.start <= k /\ k < f.end}

\* C5: once chunk_data has returned (overlap step not above the chunk size),
\* every byte offset of data lies in at least one delivered frame and the
\* last frame delivered ends at data.size().
C5_FramesLeaveNoGap ==
    (ck_pc = "done" /\ overlap_step_ <= chunk_size_)
        => /\ \A k \in 0..(Len(data) - 1) :
                 \E n \in 1..Len(frames) : k \in FrameOffsets(frames[n])
           /\ frames # <<>> => frames[Len(frames)].end = Len(data)

\* C6: with the overlap step equal to the chunk size, every frame after the
\* first starts at the previous frame's end, no byte offset belongs to two
\* frames, and the start offsets strictly increase with the frame index.
C6_FramesAbutWithoutOverlap ==
    overlap_step_ = chunk_size_
        => /\ \A n \in 1..(Len(frames) - 1) :
                 /\ frames[n + 1].start = frames[n].end
                 /\ frames[n].start < frames[n + 1].start
                 /\ frames[n + 1].index = frames[n].index + 1
           /\ \A m, n \in 1..Len(frames) :
                 m # n => FrameOffsets(frames[m]) \cap FrameOffsets(frames[n]) = {}

\* C12: the end chosen for a frame depends only on the data length and on
\* the bytes below that end: every input of the same length that agrees with
\* data on all offsets below the end gets the same end for the same start.
C12_EndDependsOnCoveredBytes ==
    \A n \in 1..Len(frames) :
        \A other \in [1..Len(data) -> DataBytes] :
            (\A k \in 1..Len(data) : k - 1 < frames[n].end => other[k] = data[k])
                => FrameEnd(other, frames[n].start, chunk_size_) = frames[n].end

\* Some offset in lo..(hi - 1) below data.size() holds a boundary byte.
WindowHasBoundary(lo, hi) ==
    \E i \in lo..(hi - 1) : i >= 0 /\ i < Len(data) /\ is_boundary(data[i + 1])

\* C15: every delivered frame that ends below data.size() has a boundary
\* byte as its last byte whenever a boundary byte lies within 4096 bytes at
\* or after the target offset start + chunk_size or, failing that, within
\* 4096 bytes before it; with no boundary byte in either window the frame
\* ends at the target offset.
C15_FrameEndsOnGrain ==
    \A n \in 1..Len(frames) :
        LET f == frames[n]
            target_end == f.start + chunk_size_
        IN  f.end < Len(data)
                => IF \/ WindowHasBoundary(target_end, target_end + SearchWindow)
                      \/ WindowHasBoundary(target_end - SearchWindow, target_end)
                   THEN /\ f.start < f.end
                        /\ is_boundary(data[f.end])
                   ELSE f.end = target_end

\* ----------------------------------------------------------------------
\*  Claims about find_boundary
\* ----------------------------------------------------------------------

\* Offset i of the span holds a boundary byte and lies in the forward window
\* of target t: t <= i < min(t + 4096, size).
InForwardWindow(i, t) ==
    /\ t <= i /\ i < t + SearchWindow /\ i < fb_size
    /\ is_boundary(fb_mem[i + 1])

\* Offset i holds a boundary byte and lies in the backward window of t:
\* max(t - 4096, 0) <= i < t.
InBackwardWindow(i, t) ==
    /\ 0 <= i /\ t - SearchWindow <= i /\ i < t
    /\ is_boundary(fb_mem[i + 1])

\* C16: for 0 <= t <= data.size(), find_boundary(data, t) is the offset just
\* past the smallest boundary index of the forward window if there is one,
\* otherwise the offset just past the largest boundary index of the backward
\* window if there is one, otherwise t; a forward hit wins over any backward
\* hit.
C16_MatchesReference ==
    (fb_pc = "returned" /\ fb_target <= fb_size)
        => LET t == fb_target
               r == fb_result
               offsets == 0..(fb_size - 1)
               some_forward == \E i \in offsets : InForwardWindow(i, t)
               some_backward == \E i \in offsets : InBackwardWindow(i, t)
           IN  \/ /\ InForwardWindow(r - 1, t)
                  /\ \A i \in offsets : InForwardWindow(i, t) => r - 1 <= i
               \/ /\ ~some_forward
                  /\ InBackwardWindow(r - 1, t)
                  /\ \A i \in offsets : InBackwardWindow(i, t) => i <= r - 1
               \/ /\ ~some_forward /\ ~some_backward
                  /\ r = t

\* A call whose forward window holds no boundary byte although one lies just
\* past its end, and whose backward window holds one at its first offset.
C16_Witness ==
    /\ fb_pc = "returned"
    /\ fb_size = SearchWindow + 2
    /\ fb_target = 1
    /\ is_boundary(fb_mem[1]) /\ is_boundary(fb_mem[SearchWindow + 2])
    /\ fb_result = 1

\* C17: for every data and every target_end, also above data.size(),
\* find_boundary reads only indices below data.size() and returns an offset
\* at most 4096 away from target_end.
C17_ReadsInsideSpan ==
    fb_pc \in {"returned", "ub"}
        => /\ \A i \in fb_reads : 0 <= i /\ i < fb_size
           /\ fb_result - fb_target <= SearchWindow
           /\ fb_target - fb_result <= SearchWindow

\* ----------------------------------------------------------------------
\*  Claims about compress
\* ----------------------------------------------------------------------

\* C1: for every byte sequence D, decompress(compress(D), len(D)) returns
\* exactly D.
C1_RoundTrip ==
    ck_pc = "decompressed" => decoded = data

\* ----------------------------------------------------------------------
\*  Claims about the coder
\* ----------------------------------------------------------------------

\* The interval of the specification, over the mathematical integers:
\*   new_low  = low + floor((high - low + 1) * low_count / total)
\*   new_high = low + floor((high - low + 1) * high_count / total) - 1
ExactNarrowed(low, high, low_count, high_count, total) ==
    LET range == AddL(SubL(high, low, WideLimbs), OneWord, WideLimbs)
        scaled(count) == DivL(MulL(range, count, WideLimbs), total)
    IN  [low |-> AddL(low, scaled(low_count), WideLimbs),
         high |-> SubL(AddL(low, scaled(high_count), WideLimbs), OneWord, WideLimbs)]

\* C2: for low_count < high_count <= total and 0 < total, the interval
\* encode_range stores before it renormalizes is the one computed over the
\* mathematical integers.
C2_NarrowsExactly ==
    (/\ rac_last.op \in {"encode", "encode_range"}
     /\ rac_last.total_sum > 0
     /\ rac_last.low_count < rac_last.high_count
     /\ rac_last.high_count <= rac_last.total_sum)
        => LET exact == ExactNarrowed(rac_last.pre_low, rac_last.pre_high,
                                      rac_last.low_count, rac_last.high_count,
                                      rac_last.total_sum)
           IN  /\ AddL(rac_last.new_low, ZeroWord, WideLimbs) = exact.low
               /\ AddL(rac_last.new_high, ZeroWord, WideLimbs) = exact.high

\* C3: an encode call against a total of zero ends in an error outcome.
C3_ZeroTotalRejected ==
    (rac_last.op \in {"encode", "encode_range"} /\ rac_last.total_sum = 0)
        => rac_last.outcome = "error"

\* The bits of the byte sequence q, most significant bit of each byte first.
BitsOf(q) == [k \in 1..(8 * Len(q)) |->
                 (q[((k - 1) \div 8) + 1] \div (2 ^ (7 - ((k - 1) % 8)))) % 2]

\* C4: after get_output the stream holds, right after the bits written
\* before the call, one bit for every underflow bit that was pending (all of
\* one value) and then the top bits of low.
C4_FlushEmitsPendingThenLow ==
    rac_last.op = "get_output"
        => LET stream == BitsOf(output_)
               n0 == rac_last.bits_before
               pending == rac_last.pending_before
           IN  /\ Len(stream) >= n0 + pending + 8
               /\ \E b \in {0, 1} : \A k \in 1..pending : stream[n0 + k] = b
               /\ \A k \in 1..8 :
                     stream[n0 + pending + k]
                         = (TopByte(low_) \div (2 ^ (8 - k))) % 2

\* ----------------------------------------------------------------------
\*  Claims about the Examples mixer
\* ----------------------------------------------------------------------

\* C11: after train requantized an entry from any counts, every one of its
\* 256 stored probabilities is at least 1.
C11_ProbabilityFloor ==
    (tr_entry.valid /\ tr_observed # <<>>)
        => \A b \in 0..255 : tr_entry.probabilities[b] >= 1

\* The predictions compress makes from empty tables for an input d that is
\* delivered as one frame.
FreshPredictions(d) ==
    LET hashes == Hashes(d)
        trained == TrainedTables(<<>>, d, hashes)
    IN  [i \in 1..Len(d) |-> MixedProbs(trained, hashes, i - 1)]

\* C13: the prediction for position i depends only on the bytes before
\* position i: an input that agrees on the bytes up to and including
\* position i (more than the claim asks) yields the same prediction there.
\* Checked for the inputs that are delivered as a single frame.
C13_PredictionIsCausal ==
    (ex_pc = "done" /\ Len(ex_frames) = 1)
        => \A other \in SeqsUpTo(DataBytes, MaxLen) :
              (other # <<>> /\ FrameEnd(other, 0, ex_chunk_size) = Len(other))
                  => LET fresh == FreshPredictions(other)
                     IN  \A i \in 1..Min(Len(other), Len(ex_data)) :
                            (\A j \in 1..i : other[j] = ex_data[j])
                                => fresh[i] = ex_preds[i]

\* C14: a compress call with the same input and configuration as the first
\* call on the compressor returns the same bytes as that first call.
C14_SameInputSameOutput ==
    (ck_pc = "compressed" /\ cm_calls >= 2) => output_ = cm_first

\* C18: chunk_data delivers finitely many frames and returns; in the examples
\* chunker the next start is the frame's end, so every frame delivered must
\* end above its start: no frame leaves the start offset unchanged or moves
\* it backward.
C18_EveryFrameAdvances ==
    \A n \in 1..Len(ex_frames) : ex_frames[n].start < ex_frames[n].end

\* ----------------------------------------------------------------------
\*  Claims about the order of the calls within a frame
\* ----------------------------------------------------------------------

IsRefresh(e) == e.call = "refresh"
NotRefresh(e) == e.call # "refresh"

\* The index of the last refresh in the log, 0 if there is none.
LastRefresh ==
    LET at == {k \in 1..Len(cb_log) : IsRefresh(cb_log[k])}
    IN  IF at = {} THEN 0 ELSE SetMax(at)

\* C19: within a frame the calls are predict(i), encode(chunk[i]),
\* update(i, chunk[i]) for i = 0, 1, ... in increasing order; refresh is
\* called right after the update of every position with (i + 1) mod 233 = 0
\* and once more after the last position, and nowhere else; never more than
\* 233 updates follow the latest refresh, and the frame ends with a refresh.
C19_CallOrder ==
    LET calls == SelectSeq(cb_log, NotRefresh)
        kinds == <<"predict", "encode", "update">>
        closing(k) == cb_pc = "done" /\ k = Len(cb_log)
    IN  /\ \A k \in 1..Len(calls) :
              calls[k] = [call |-> kinds[((k - 1) % 3) + 1], i |-> (k - 1) \div 3]
        /\ \A k \in 1..Len(cb_log) :
              LET e == cb_log[k]
              IN  /\ (e.call = "update" /\ (e.i + 1) % 233 = 0 /\ k < Len(cb_log))
                         => IsRefresh(cb_log[k + 1])
                  /\ (IsRefresh(e) /\ ~closing(k))
                         => /\ k > 1
                            /\ cb_log[k - 1].call = "update"
                            /\ (cb_log[k - 1].i + 1) % 233 = 0
        /\ Cardinality({k \in (LastRefresh + 1)..Len(cb_log) :
                            cb_log[k].call = "update"}) <= 233
        /\ cb_pc = "done"
              => /\ IsRefresh(cb_log[Len(cb_log)])
                 /\ Len(calls) = 3 * cb_n

\* A frame of 234 bytes has been coded: a refresh after position 232, one
\* more byte, and the closing refresh.
C19_Witness ==
    /\ cb_pc = "done"
    /\ cb_n = 234
    /\ Len(cb_log) = 3 * 234 + 2
    /\ IsRefresh(cb_log[3 * 233 + 1])

\* ----------------------------------------------------------------------
\*  Claims about renormalization
\* ----------------------------------------------------------------------

\* The 55 bits of the word X, most significant first.
BitsOfWord(X) ==
    [k \in 1..RANGE_BITS |->
        LET j == RANGE_BITS - k
        IN  (X[(j \div LimbBits) + 1] \div (2 ^ (j % LimbBits))) % 2]

\* The bits written so far by coder c: the bytes pushed and the bits held in
\* current_byte_.
StreamOf(c) ==
    BitsOf(c.out) \o [k \in 1..c.bits |-> (c.cur \div (2 ^ (c.bits - k))) % 2]

\* The value of the two top bits of a 55-bit word: its quarter of the range.
QuarterOf(X) == 2 * BitsOfWord(X)[1] + BitsOfWord(X)[2]

\* The bits of a 55-bit word after its top bit is replaced by `top` and it
\* is shifted left by one with `fill` coming in at the bottom.
ShiftedBits(X, top, fill) ==
    <<top>> \o SubSeq(BitsOfWord(X), 3, RANGE_BITS) \o <<fill>>

\* C20: in every iteration of encode_range's renormalization loop: when the
\* top bits of low and high agree, that bit b is written, followed at once by
\* exactly k bits of value not-b for the pending counter k, which becomes 0;
\* the pending counter goes up (by one) only when the top bits differ with
\* low at or above the first quarter and high below the third quarter, and
\* then the first quarter is subtracted from both and nothing is written;
\* the iteration then shifts low left filling 0 and high left filling 1
\* within 55 bits; the loop stops only when neither case holds.
C20_RenormalizationSteps ==
    rac_last.op \in {"encode", "encode_range"}
        => LET loop == rac_last.loop
               agree(c) == BitsOfWord(c.low)[1] = BitsOfWord(c.high)[1]
               middle(c) == /\ ~agree(c)
                            /\ QuarterOf(c.low) >= 1
                            /\ QuarterOf(c.high) <= 2
           IN  /\ \A k \in 1..(Len(loop) - 1) :
                     LET c == loop[k]
                         d == loop[k + 1]
                         b == BitsOfWord(c.low)[1]
                     IN  /\ agree(c) \/ middle(c)
                         /\ agree(c)
                               => /\ StreamOf(d) = StreamOf(c) \o <<b>> \o
                                        [j \in 1..c.underflow |-> 1 - b]
                                  /\ d.underflow = 0
                                  /\ BitsOfWord(d.low)
                                        = ShiftedBits(c.low, BitsOfWord(c.low)[2], 0)
                                  /\ BitsOfWord(d.high)
                                        = ShiftedBits(c.high, BitsOfWord(c.high)[2], 1)
                         /\ d.underflow > c.underflow => middle(c)
                         /\ middle(c)
                               => /\ d.underflow = c.underflow + 1
                                  /\ StreamOf(d) = StreamOf(c)
                                  /\ BitsOfWord(d.low)
                                        = ShiftedBits(c.low, (QuarterOf(c.low) - 1) % 2, 0)
                                  /\ BitsOfWord(d.high)
                                        = ShiftedBits(c.high, (QuarterOf(c.high) - 1) % 2, 1)
                         /\ d.low[WordLimbs] = 0 /\ d.high[WordLimbs] = 0
               /\ loop # <<>>
                     => /\ ~agree(loop[Len(loop)]) /\ ~middle(loop[Len(loop)])
                        /\ loop[Len(loop)].low = low_
                        /\ loop[Len(loop)].high = high_
                        /\ StreamOf(loop[Len(loop)]) = StreamOf(CoderState)

\* An encode_range call whose loop met agreeing top bits with two bits
\* pending, after an iteration that raised the pending counter.
C20_Witness ==
    /\ rac_last.op \in {"encode", "encode_range"}
    /\ \E k \in 1..(Len(rac_last.loop) - 1) :
          /\ rac_last.loop[k].underflow >= 2
          /\ HalfBit(rac_last.loop[k].low) = HalfBit(rac_last.loop[k].high)
    /\ \E k \in 1..(Len(rac_last.loop) - 1) :
          rac_last.loop[k + 1].underflow > rac_last.loop[k].underflow

\* ----------------------------------------------------------------------
\*  Claims about the bytes compress codes
\* ----------------------------------------------------------------------

\* C21: during compress(data) the coder's encode is called exactly
\* data.size() times and the k-th call codes data[k]: once compress has
\* returned, the symbols given to rac_.encode, in order, are the input.
C21_EveryByteCodedOnce ==
    ck_pc = "compressed" => coded = data

\* ----------------------------------------------------------------------
\*  Claims about encode's cumulative sums
\* ----------------------------------------------------------------------

\* The sum of entries from..to of the distribution over the integers, in
\* five limbs (no wrap below 2^55).
RECURSIVE ExactSum(_, _, _)
ExactSum(distribution, from, to) ==
    IF from > to THEN <<0, 0, 0, 0, 0>>
    ELSE CHOOSE r \in {AddL(p, distribution[to], 5) :
                          p \in {ExactSum(distribution, from, to - 1)}} : TRUE

\* The sum of the entries below index n: sixteen blocks of sixteen entries.
PrefixSum(distribution, n) ==
    LET block(k) == ExactSum(distribution, 16 * k, Min(16 * k + 15, n - 1))
        RECURSIVE upto(_)
        upto(k) == IF k < 0 THEN <<0, 0, 0, 0, 0>>
                   ELSE CHOOSE r \in {AddL(p, b, 5) :
                                         p \in {upto(k - 1)}, b \in {block(k)}} : TRUE
    IN  upto(15)

\* C22: encode passes to encode_range low_count = the sum of distribution[s]
\* for s < actual, high_count = low_count + distribution[actual], and total
\* = the sum of all 256 entries, each modulo 2^32, whatever the position of
\* actual within its group of 8.
C22_CdfIsPrefixSum ==
    cdf_pc = "encode_range"
        => /\ cdf_args.low_cdf = Word32(PrefixSum(cdf_distribution, cdf_actual))
           /\ cdf_args.high_cdf = Word32(PrefixSum(cdf_distribution, cdf_actual + 1))
           /\ cdf_args.total_sum = Word32(PrefixSum(cdf_distribution, 256))

\* encode was called with a symbol in the middle of a group of 8 and with
\* entries whose sums wrap at 2^32.
C22_Witness ==
    /\ cdf_pc = "encode_range"
    /\ cdf_actual % 8 = 5
    /\ cdf_distribution = FullDist32
    /\ cdf_args.low_cdf # Zero32

\* The last call was encode_range (directly or through encode) with
\* low_count < high_count <= total_sum and total_sum > 0.
ValidRangeCall ==
    /\ rac_last.op \in {"encode", "encode_range"}
    /\ rac_last.total_sum > 0
    /\ rac_last.low_count < rac_last.high_count
    /\ rac_last.high_count <= rac_last.total_sum

\* C23: after reset and after every encode_range call with low_count <
\* high_count <= total and total > 0, 0 <= low < 2^54 <= high <= 2^55 - 1 and
\* not (low >= 2^53 and high < 3 * 2^53): low and high stay in the 55-bit
\* range.
C23_IntervalInvariant ==
    (ValidRangeCall \/ rac_last.op = "reset")
        => /\ Less(low_, HALF_RANGE)
           /\ LessEq(HALF_RANGE, high_)
           /\ LessEq(high_, RANGE_MASK)
           /\ ~(LessEq(FIRST_QUARTER, low_) /\ Less(high_, THIRD_QUARTER))

\* A valid call with total 1024, not the first since reset, whose interval
\* came to lie in the middle half, so that the loop took the underflow branch.
C23_Witness ==
    /\ ValidRangeCall
    /\ rac_last.total_sum = 1024
    /\ rac_calls > 1
    /\ \E k \in 1..Len(rac_last.loop) :
          LET c == rac_last.loop[k]
          IN  /\ HalfBit(c.low) # HalfBit(c.high)
              /\ LessEq(FIRST_QUARTER, c.low) /\ Less(c.high, THIRD_QUARTER)

\* C24: encode_range never stalls: from every reachable state and for every
\* (low_count, high_count, total) with total > 0, a zero-width symbol
\* (high_count = low_count) included, the renormalization loop is left.
C24_LoopTerminates == (rn_pc = "loop") ~> (rn_pc = "idle")

\* A zero-width call made after another call has returned, itself returned
\* after more than 50 iterations.
C24_Witness ==
    /\ rn_pc = "idle"
    /\ rn_calls = 2
    /\ rn_last[1] = rn_last[2] /\ rn_last[3] > 0
    /\ rn_iter > 50

\* Distributions that are valid tables in the specification's sense: no
\* negative entry, not all zero.  OneHotDist gives every symbol but 'a' the
\* probability 0.
OneHotDist == [s \in 0..255 |-> IF s = 97 THEN 1 ELSE 0]
ValidDistributions == {UniformDist, PeakDist, OneHotDist}
IntervalSymbols == {0, 97, 98, 255}

\* The interval encode(actual, distribution) would store in low_ and high_
\* from the current state, before it renormalizes.
IntervalFor(actual, distribution) ==
    LET cdf == CdfOf(actual, distribution)
    IN  Narrowed(low_, high_, cdf.low_cdf, cdf.high_cdf, cdf.total_sum)

\* C25: in every reachable coder state and for every valid distribution,
\* the intervals of two distinct symbols are disjoint and each lies inside
\* the current [low, high], symbols of probability 0 included.
C25_IntervalsDisjointInside ==
    \A d \in ValidDistributions :
        LET iv == [s \in IntervalSymbols |-> IntervalFor(s, d)]
        IN  \A s \in IntervalSymbols :
               /\ LessEq(low_, iv[s].low) /\ LessEq(iv[s].high, high_)
               /\ \A t \in IntervalSymbols :
                     s < t => \/ Less(iv[s].high, iv[t].low)
                              \/ Less(iv[t].high, iv[s].low)

\* C26: for a fixed distribution with every value >= 1, two different
\* symbol sequences of the same length, each coded from reset() and ended
\* with get_output(), give different bytes.
C26_StreamsDiffer ==
    (st_pc = "coded" /\ st_first # st_second) => st_out[1] # st_out[2]

\* C27: get_output is idempotent: a second call, with no encode in between,
\* returns the bytes the first call returned.
C27_GetOutputIdempotent ==
    [][(rac_last.op = "get_output" /\ rac_last'.op = "get_output"
            /\ rac_calls' = rac_calls + 1)
        => output_' = output_]_vars

\* The symbol-th of total_range equal slices of the true range
\* high - low + 1 of [low, high], nothing wrapping: seven limbs.
TrueSlice(low, high, symbol, total_range) ==
    LET one == <<1, 0, 0, 0, 0, 0, 0>>
        slice == DivL(AddL(SubL(high, low, 7), one, 7), total_range)
    IN  [low |-> AddL(low, MulL(slice, symbol, 7), 7),
         high |-> SubL(AddL(low, MulL(slice, symbol + 1, 7), 7), one, 7)]

\* C28: in the Examples coders encode(symbol, total_range) with symbol <
\* total_range stores the symbol-th of total_range equal slices of the true
\* range high - low + 1, from the initial full-width state on; with more
\* than one slice the call changes the coder's state.
C28_NarrowsToTrueSlice ==
    xc_last.coder # "none"
        => LET exact == TrueSlice(xc_last.pre[1], xc_last.pre[2],
                                  xc_last.symbol, xc_last.total_range)
               now == IF xc_last.coder = "CircularRAC"
                      THEN <<xr_low, xr_high, xr_out>>
                      ELSE <<sr_low, sr_high, sr_out>>
           IN  /\ \A i \in 1..7 : /\ At(xc_last.stored[1], i) = exact.low[i]
                                  /\ At(xc_last.stored[2], i) = exact.high[i]
               /\ xc_last.total_range > 1 => now # xc_last.pre

\* C29: every frame chunk_data delivers satisfies start < end <= data.size(),
\* for every chunk size >= 1.
C29_FramesNonEmptyInside ==
    \A n \in 1..Len(frames) :
        frames[n].start < frames[n].end /\ frames[n].end <= Len(data)

\* C30: for every frame of the default frame size (up to HORIZON_FRAME_SIZE
\* + 4096 bytes) the allocations made after the per-frame reset (ranks,
\* qprobs and the four per-position hash arrays) fit in the
\* BEKENSTEIN_BUFFER bytes of the arena: compress never reaches bad_alloc.
C30_FrameFitsArena == fa_pc # "bad_alloc"

====
